---- MODULE Spec2Model ----
(***************************************************************************)
(* GameCaster-AI: the live session controller.                             *)
(*   GeminiLiveService (services/geminiLiveService.ts): connect,           *)
(*   startAudioInput, handleMessage, sendVideoFrame, disconnect and the    *)
(*   channel callbacks; LiveCaster (components/LiveCaster.tsx): the        *)
(*   callbacks it registers, its frame timer and its effect cleanup.       *)
(* Every await of the source is a point where the step ends; what runs     *)
(* between two awaits is one action.                                       *)
(***************************************************************************)
EXTENDS Integers, Sequences, FiniteSets, TLC

\* ------------------------------------------------------------------ bounds
MaxMsgs == 2      \* inbound messages delivered (timeline specification)
MaxTime == 2      \* readings of the output clock, 0..MaxTime (timeline specification)
MaxLifeMsgs == 1  \* inbound messages delivered (lifecycle specification)
MaxLifeTime == 1  \* readings of the output clock (lifecycle specification)
MaxDisc == 1      \* disconnect() calls made by other callers than LiveCaster and connect
MaxWin == 2       \* microphone windows captured (outbound specification)
MaxFrames == 2    \* frame timer ticks (outbound specification)
MaxPokes == 1     \* uses of the Manual Poke button
MaxLifeWin == 1   \* microphone windows captured (lifecycle specification)
MaxLifeFrames == 1 \* frame timer ticks (lifecycle specification)
MaxDispMsgs == 2  \* inbound messages delivered (dispatch specification)
MaxDispTime == 1  \* readings of the output clock (dispatch specification)
MaxVideoTime == 2 \* positions of the video, 0..MaxVideoTime
MaxEvents == 2    \* highlights added
MaxSamples == 2   \* samples in one call of createPcmData
MaxSubs == 3      \* subtitle events

VARIABLES
  \* GeminiLiveService fields (geminiLiveService.ts 17-32)
  session,                  \* "null" | "set"
  audioContext,             \* "null" | "running" | "closed" (the field, with the context's state)
  gainNode,                 \* BOOLEAN: the field is set
  audioQueueNextStartTime,  \* PlaybackCursor
  isConnected,
  activeSources,            \* sequence of unit ids (a unit is named by its message's arrival index)
  inputMediaStream,         \* "null" | "live"
  inputAudioContext,        \* "null" | "running" | "closed"
  \* devices and channel
  chan,                     \* "none" | "connecting" | "open" | "errored" | "closing" | "closed" | "failed"
  now,                      \* audioContext.currentTime
  micTracks,                \* "none" | "live" | "stopped"
  \* control: where each asynchronous function is suspended
  connectPc,                \* "idle" | "awaitChannel" | "awaitMic" | "returned"
  discPc,                   \* one record per disconnect() call, in call order
  handler,                  \* per inbound message: its handleMessage call
  msgCount,                 \* messages delivered so far
  \* LiveCaster
  mounted, uiConnected, frameTimer, capturing, frameTicks, poking,
  \* outbound traffic
  micWin, audioChunks, frameChunks,
  \* history of the output timeline
  sched,                    \* units in the order they were started
  stopped, ended,           \* ids of units stop() was called on / whose onended ran
  epoch, intrTime, intrMsg, \* interruptions handled, clock at the last one, its message
  \* what the service did besides: callbacks, log notices, output gain
  onErrorCalls,             \* calls of callbacks.onError
  micNotice,                \* the "Microphone access denied or error" notice was logged
  gain,                     \* gainNode.gain: 1, or 0 when muted
  subtitled,                \* ids of the messages onSubtitle was called for, in call order
  inbox,                    \* the messages delivered, as recorded by OnMessageLogged
  failed,                   \* ids of the messages whose decode failed
  frameLog,                 \* what the frame sampler did, in order
  uncaught,                 \* exceptions that left a callback of the service uncaught
  \* the visualization taps
  taps,                     \* BOOLEAN: onAudioData and onInputAudioData are registered
  tapIn, tapOut,            \* the input / output analyser was handed to its callback
  vizLoop,                  \* BOOLEAN: startVisualizer has an animation frame requested
  \* LiveCaster and Home state besides the connection
  videoTime,                \* LiveCaster's currentTime
  events,                   \* LiveCaster's events
  handedOff,                \* the lists onFinish was called with
  transcript,               \* LiveCaster's subtitles, a sequence of characters
  allText,                  \* every subtitle text so far with its separator, in order
  hypeLevel, hypeModifier,  \* Home's hypeLevel; what HYPE_MODIFIER made of it
  \* createPcmData
  pcmIn, pcmOut,            \* the samples given; the results returned
  \* LiveCaster's timers and error banner
  timers,                   \* interval timers of the frame effect that are active
  safetyTimer,              \* "none" | "pending" | "fired" | "cleared": the 15 s timeout
  connectionError,          \* "null" | "error" | "timeout": LiveCaster's connectionError
  \* a second connect() on the same service
  relink,                   \* <<>>, or the units and messages counted when connect() was called again
  \* Home (part_002 11-83) and the screen-capture streams
  streams,                  \* the streams acquired so far, in order: "live" | "stopped"
  screenStream,             \* Home's screenStream: 0 for null, or a stream
  screenStep,               \* "IDLE" | "GUIDE" | "PREVIEW"
  streamKeepAlive,          \* streamKeepAliveRef.current
  shareReqs,                \* getDisplayMedia calls: the screenStream each closure holds, and its state
  homeMounted,              \* Home is on screen
  mediaSource,              \* config.mediaSource of LiveCaster: 0 before START CASTING
  \* ResultReport and generatePostGameReport
  sessionEvents,            \* the events ResultReport was given
  reportPc,                 \* "idle" | "requested" | "resolved" | "rejected"
  reply,                    \* how the generateContent request ended: "none" while it has not
  prompt,                   \* the event log sent with the request
  report,                   \* ResultReport's report: <<>> for null
  loading                   \* ResultReport's loading

svc == <<session, audioContext, gainNode, audioQueueNextStartTime, isConnected,
         activeSources, inputMediaStream, inputAudioContext>>
env == <<chan, now, micTracks>>
ctl == <<connectPc, discPc, handler, msgCount>>
ui == <<mounted, uiConnected, frameTimer, capturing, frameTicks, poking>>
out == <<micWin, audioChunks, frameChunks>>
hist == <<sched, stopped, ended, epoch, intrTime, intrMsg>>
obs == <<onErrorCalls, micNotice, gain, subtitled, inbox, failed, frameLog>>
tap == <<taps, tapIn, tapOut, vizLoop>>
cast == <<videoTime, events, handedOff, transcript, allText, hypeLevel, hypeModifier>>
pcm == <<pcmIn, pcmOut>>
late == <<timers, safetyTimer, connectionError>>
home == <<streams, screenStream, screenStep, streamKeepAlive, shareReqs, homeMounted,
          mediaSource>>
rep == <<sessionEvents, reportPc, reply, prompt, report, loading>>
ext == <<relink, home, rep>>
aux == <<uncaught, tap, cast, pcm, late, ext>>
vars == <<svc, env, ctl, ui, out, hist, obs, aux>>

Max2(a, b) == IF a > b THEN a ELSE b
MsgBound == Max2(MaxMsgs, Max2(MaxLifeMsgs, MaxDispMsgs))
Msgs == 1..MsgBound
\* Durations of decoded units, in clock units; 0 stands for "no audio payload".
Durs == {1, 2}
Payloads == {0} \cup Durs
Idle == [pc |-> "none", dur |-> 0, intr |-> FALSE, text |-> FALSE]
Done == [pc |-> "done", dur |-> 0, intr |-> FALSE, text |-> FALSE]
Range(s) == {s[i] : i \in 1..Len(s)}

InitFields ==
  /\ session = "null" /\ audioContext = "null" /\ gainNode = FALSE
  /\ audioQueueNextStartTime = 0 /\ isConnected = FALSE /\ activeSources = <<>>
  /\ inputMediaStream = "null" /\ inputAudioContext = "null"
  /\ chan = "none" /\ now = 0 /\ micTracks = "none"
  /\ connectPc = "idle" /\ discPc = <<>> /\ handler = [k \in Msgs |-> Idle] /\ msgCount = 0
  /\ uiConnected = FALSE /\ frameTimer = FALSE
  /\ capturing = 0 /\ frameTicks = 0 /\ poking = 0
  /\ micWin = 0 /\ audioChunks = <<>> /\ frameChunks = 0
  /\ sched = <<>> /\ stopped = {} /\ ended = {}
  /\ epoch = 0 /\ intrTime = -1 /\ intrMsg = 0
  /\ onErrorCalls = 0 /\ micNotice = FALSE /\ gain = 1
  /\ subtitled = <<>> /\ inbox = <<>> /\ failed = {} /\ frameLog = <<>>
  /\ uncaught = 0 /\ tapIn = FALSE /\ tapOut = FALSE /\ vizLoop = FALSE
  /\ videoTime = 0 /\ events = <<>> /\ handedOff = <<>>
  /\ transcript = <<>> /\ allText = <<>>
  /\ hypeModifier = "" /\ pcmOut = <<>>
  /\ timers = 0 /\ safetyTimer = "none" /\ connectionError = "null"
  /\ relink = <<>> /\ shareReqs = <<>>
  /\ sessionEvents = <<>> /\ reportPc = "idle" /\ reply = "none" /\ prompt = <<>> /\ report = <<>>
  /\ loading = TRUE

\* LiveCaster has just been mounted by START CASTING (part_000 14-17, part_002
\* 72-83): Home is gone, and the stream it handed over is config.mediaSource.
InitService ==
  /\ InitFields /\ mounted = TRUE /\ homeMounted = FALSE
  /\ streams = <<"live">>
  /\ screenStream = 1 /\ screenStep = "PREVIEW" /\ streamKeepAlive = TRUE
  /\ mediaSource = 1

\* LiveCaster 494-524 constructs the service with both visualization callbacks;
\* Home's slider starts at 50 (part_002 14); createPcmData has not been called.
Init == InitService /\ taps = TRUE /\ hypeLevel = 50 /\ pcmIn = <<>>

\* ------------------------------------------------ Output Audio Scheduler
\* Variant without lines 214-216: the unit is started at the cursor as it stands.
ClampCursor_NoClamp(cursor, currentTime) == cursor

\* The clamp starting every unit at the clock reading, wherever the cursor is.
ClampCursor_ToNow(cursor, currentTime) == currentTime

\* geminiLiveService.ts 213-216: never start a unit before the clock.
ClampCursor(cursor, currentTime) == IF cursor < currentTime THEN currentTime ELSE cursor

\* Variant without line 219: the cursor stays where the unit starts.
AdvanceCursor_NoAdvance(start, duration) == start

\* geminiLiveService.ts 219: audioQueueNextStartTime += audioBuffer.duration
AdvanceCursor(start, duration) == start + duration

\* The scheduling step torn: the unit is started at the clamped cursor, but the
\* advance is applied to the cursor as it was read before the clamp.
ScheduleResult_Torn(ctx, cursor, srcs, k, d, t) ==
  IF ctx = "null"
  THEN [cursor |-> cursor, srcs |-> srcs, started |-> FALSE, start |-> 0, dur |-> 0]
  ELSE [cursor |-> AdvanceCursor(cursor, d),
        srcs |-> Append(srcs, k),
        started |-> TRUE,
        start |-> ClampCursor(cursor, t),
        dur |-> d]

\* geminiLiveService.ts 209-225, the code after `await decodeAudioData(...)`.
\* createBufferSource() on a null audioContext throws into the catch at 227;
\* otherwise the unit is started at the clamped cursor and pushed.
ScheduleResult(ctx, cursor, srcs, k, d, t) ==
  IF ctx = "null"
  THEN [cursor |-> cursor, srcs |-> srcs, started |-> FALSE, start |-> 0, dur |-> 0]
  ELSE [cursor |-> AdvanceCursor(ClampCursor(cursor, t), d),
        srcs |-> Append(srcs, k),
        started |-> TRUE,
        start |-> ClampCursor(cursor, t),
        dur |-> d]

\* Variant without lines 245-248: the cursor is reset, the sources are neither
\* stopped nor taken off the list.
InterruptResult_KeepSources(ctx, cursor, srcs, t) ==
  [cursor |-> IF ctx # "null" THEN t ELSE cursor,
   srcs |-> srcs,
   stops |-> {}]

\* Variant without lines 249-251: the sources are stopped and the list cleared,
\* the cursor keeps its value.
InterruptResult_KeepCursor(ctx, cursor, srcs, t) ==
  [cursor |-> cursor,
   srcs |-> <<>>,
   stops |-> {srcs[i] : i \in 1..Len(srcs)}]

\* geminiLiveService.ts 243-252: stop every active source, clear the list,
\* reset the cursor to the clock when there is an audio context.
InterruptResult(ctx, cursor, srcs, t) ==
  [cursor |-> IF ctx # "null" THEN t ELSE cursor,
   srcs |-> <<>>,
   stops |-> {srcs[i] : i \in 1..Len(srcs)}]

\* onended without the test of the index: indexOf gives -1 for a source that is
\* not in the list and splice(-1, 1) takes the last element out.
RemoveSource_Unguarded(srcs, k) ==
  IF \E i \in 1..Len(srcs) : srcs[i] = k
  THEN SelectSeq(srcs, LAMBDA x : x # k)
  ELSE SubSeq(srcs, 1, Len(srcs) - 1)

\* geminiLiveService.ts 222-225: indexOf(source), splice when found.
RemoveSource(srcs, k) == SelectSeq(srcs, LAMBDA x : x # k)

\* Nothing scheduled: the value of the audio part when it is skipped or fails.
NoAudio == [cursor |-> audioQueueNextStartTime, srcs |-> activeSources,
            started |-> FALSE, start |-> 0, dur |-> 0]

\* The tail of handleMessage with the interruption in an else branch of the
\* audio part: a message whose unit was started does not get its flag handled.
FinishMessage_AudioFirst(k, r, intrFlag) ==
  LET intr == intrFlag /\ ~r.started
      i == InterruptResult(audioContext, r.cursor, r.srcs, now) IN
  /\ audioQueueNextStartTime' = (IF intr THEN i.cursor ELSE r.cursor)
  /\ activeSources' = (IF intr THEN i.srcs ELSE r.srcs)
  /\ stopped' = (IF intr THEN stopped \cup i.stops ELSE stopped)
  /\ sched' = (IF r.started
               THEN Append(sched, [msg |-> k, start |-> r.start,
                                   dur |-> r.dur, at |-> now,
                                   cur0 |-> audioQueueNextStartTime,
                                   epoch |-> epoch, since |-> intrTime,
                                   sinceMsg |-> intrMsg, gain |-> gain])
               ELSE sched)
  /\ epoch' = (IF intr THEN epoch + 1 ELSE epoch)
  /\ intrTime' = (IF intr THEN now ELSE intrTime)
  /\ intrMsg' = (IF intr /\ k > intrMsg THEN k ELSE intrMsg)

\* geminiLiveService.ts 234-252: the tail of handleMessage for message k, run
\* after its audio part left the timeline as r (the subtitle part changes no
\* service state).
FinishMessage(k, r, intr) ==
  LET i == InterruptResult(audioContext, r.cursor, r.srcs, now) IN
  /\ audioQueueNextStartTime' = (IF intr THEN i.cursor ELSE r.cursor)
  /\ activeSources' = (IF intr THEN i.srcs ELSE r.srcs)
  /\ stopped' = (IF intr THEN stopped \cup i.stops ELSE stopped)
  /\ sched' = (IF r.started
               THEN Append(sched, [msg |-> k, start |-> r.start,
                                   dur |-> r.dur, at |-> now,
                                   cur0 |-> audioQueueNextStartTime,
                                   epoch |-> epoch, since |-> intrTime,
                                   sinceMsg |-> intrMsg, gain |-> gain])
               ELSE sched)
  /\ epoch' = (IF intr THEN epoch + 1 ELSE epoch)
  /\ intrTime' = (IF intr THEN now ELSE intrTime)
  /\ intrMsg' = (IF intr /\ k > intrMsg THEN k ELSE intrMsg)

\* geminiLiveService.ts 235-240: onSubtitle is called with the text when the
\* message carries one.
Subtitle(k, text) ==
  subtitled' = (IF text THEN Append(subtitled, k) ELSE subtitled)

\* onmessage awaiting handleMessage: no message is delivered to the handler
\* while an earlier call is suspended at its decode.
Dispatch_Awaited(limit, audio, text, intr) ==
  /\ chan = "open" /\ msgCount < limit
  /\ \A j \in Msgs : handler[j].pc # "decoding"
  /\ msgCount' = msgCount + 1
  /\ IF audio > 0 /\ audioContext # "null" /\ gainNode
     THEN /\ handler' = [handler EXCEPT ![msgCount + 1] =
                            [pc |-> "decoding", dur |-> audio, intr |-> intr,
                             text |-> text]]
          /\ UNCHANGED <<audioQueueNextStartTime, activeSources, hist, subtitled>>
     ELSE /\ handler' = [handler EXCEPT ![msgCount + 1] = Done]
          /\ FinishMessage(msgCount + 1, NoAudio, intr)
          /\ Subtitle(msgCount + 1, text)
          /\ UNCHANGED ended
  /\ UNCHANGED <<session, audioContext, gainNode, isConnected, inputMediaStream,
                 inputAudioContext, env, connectPc, discPc, ui, out,
                 onErrorCalls, micNotice, gain, failed, frameLog, aux>>

\* geminiLiveService.ts 85 and 194-207: the channel delivers message k and
\* onmessage calls handleMessage without awaiting it. With an audio payload and
\* an audio context the call suspends at `await decodeAudioData`; otherwise it
\* runs to its end.
Dispatch(limit, audio, text, intr) ==
  /\ chan = "open" /\ msgCount < limit
  /\ msgCount' = msgCount + 1
  /\ IF audio > 0 /\ audioContext # "null" /\ gainNode
     THEN /\ handler' = [handler EXCEPT ![msgCount + 1] =
                            [pc |-> "decoding", dur |-> audio, intr |-> intr,
                             text |-> text]]
          /\ UNCHANGED <<audioQueueNextStartTime, activeSources, hist, subtitled>>
     ELSE /\ handler' = [handler EXCEPT ![msgCount + 1] = Done]
          /\ FinishMessage(msgCount + 1, NoAudio, intr)
          /\ Subtitle(msgCount + 1, text)
          /\ UNCHANGED ended
  /\ UNCHANGED <<session, audioContext, gainNode, isConnected, inputMediaStream,
                 inputAudioContext, env, connectPc, discPc, ui, out,
                 onErrorCalls, micNotice, gain, failed, frameLog, aux>>

\* A message with transcript text and no audio is delivered.
OnTranscript(limit, intr) == Dispatch(limit, 0, TRUE, intr) /\ UNCHANGED inbox

\* A message without transcript text is delivered.
OnMessage(limit, audio, intr) ==
  /\ Dispatch(limit, audio, FALSE, intr)
  /\ UNCHANGED inbox

\* A message with any combination of parts is delivered; what it carried is
\* kept in inbox.
OnMessageLogged(limit, audio, text, intr) ==
  /\ Dispatch(limit, audio, text, intr)
  /\ inbox' = Append(inbox, [audio |-> audio, text |-> text, intr |-> intr])

\* utils/audioUtils decodeAudioData resolves for message k (any pending decode
\* may be the next to resolve); handleMessage resumes at line 209.
DecodeDone(k) ==
  /\ handler[k].pc = "decoding"
  /\ handler' = [handler EXCEPT ![k] = Done]
  /\ FinishMessage(k,
        ScheduleResult(audioContext, audioQueueNextStartTime, activeSources,
                       k, handler[k].dur, now),
        handler[k].intr)
  /\ Subtitle(k, handler[k].text)
  /\ UNCHANGED <<session, audioContext, gainNode, isConnected, inputMediaStream,
                 inputAudioContext, env, connectPc, discPc, msgCount, ui, out, ended,
                 onErrorCalls, micNotice, gain, inbox, failed, frameLog, aux>>

\* handleMessage without the try/catch of 204-231: the rejection leaves
\* handleMessage, and the subtitle and interruption parts are not reached.
DecodeFail_Throws(k) ==
  /\ k \in Msgs /\ handler[k].pc = "decoding"
  /\ handler' = [handler EXCEPT ![k] = Done]
  /\ failed' = failed \cup {k}
  /\ UNCHANGED <<svc, env, connectPc, discPc, msgCount, ui, out, hist,
                 onErrorCalls, micNotice, gain, subtitled, inbox, frameLog, aux>>

\* decodeAudioData rejects for message k: the catch at 227-230 logs and the
\* handler goes on with the subtitle and interruption parts.
DecodeFail(k) ==
  /\ handler[k].pc = "decoding"
  /\ handler' = [handler EXCEPT ![k] = Done]
  /\ FinishMessage(k, NoAudio, handler[k].intr)
  /\ Subtitle(k, handler[k].text)
  /\ failed' = failed \cup {k}
  /\ UNCHANGED <<session, audioContext, gainNode, isConnected, inputMediaStream,
                 inputAudioContext, env, connectPc, discPc, msgCount, ui, out, ended,
                 onErrorCalls, micNotice, gain, inbox, frameLog, aux>>

\* The unit started for message k, if any.
UnitOf(k) == CHOOSE e \in Range(sched) : e.msg = k
Started(k) == \E e \in Range(sched) : e.msg = k

\* geminiLiveService.ts 222-225: source.onended, fired once per unit after it
\* played to its end or after stop().
OnEnded(k) ==
  /\ Started(k) /\ k \notin ended
  /\ k \in stopped \/ now >= UnitOf(k).start + UnitOf(k).dur
  /\ ended' = ended \cup {k}
  /\ activeSources' = RemoveSource(activeSources, k)
  /\ UNCHANGED <<session, audioContext, gainNode, audioQueueNextStartTime, isConnected,
                 inputMediaStream, inputAudioContext, env, ctl, ui, out,
                 sched, stopped, epoch, intrTime, intrMsg, obs, aux>>

\* The output clock advances while the output context runs.
Tick(limit) ==
  /\ audioContext = "running" /\ now < limit
  /\ now' = now + 1
  /\ UNCHANGED <<svc, chan, micTracks, ctl, ui, out, hist, obs, aux>>

\* ------------------------------------------------------------ LiveCaster
\* LiveCaster 495-506 onOpen, 507-510 onClose, 511-516 onError: each sets the
\* component's isConnected; a state setter of an unmounted component does nothing.
UiConnectedAfter(event) ==
  IF ~mounted THEN uiConnected
  ELSE IF event = "open" THEN TRUE ELSE FALSE

\* LiveCaster 554-578: the frame streaming effect. Whenever isConnected changes
\* the cleanup clears the running interval and, when connected, a new one is set.
FrameTimerAfter(connected) == mounted /\ connected

\* The frame effect without its cleanup: a change of isConnected leaves the
\* interval that runs and sets another one when connected.
FrameTimers_NoCleanup(n, refActive, was, next) ==
  IF next = was THEN n
  ELSE n + (IF next THEN 1 ELSE 0)

\* LiveCaster 554-578, counting intervals: the effect runs when isConnected
\* changes; its cleanup (575-577) clears the interval frameIntervalRef names,
\* if that one is active, and the effect sets a new one when connected.
FrameTimers(n, refActive, was, next) ==
  IF next = was THEN n
  ELSE (n - (IF refActive THEN 1 ELSE 0)) + (IF next THEN 1 ELSE 0)

\* LiveCaster 495-515: onOpen clears connectionError, onError sets it to the
\* error's message, onClose leaves it.
ConnectionErrorAfter(event) ==
  IF ~mounted THEN connectionError
  ELSE IF event = "open" THEN "null"
  ELSE IF event = "error" THEN "error"
  ELSE connectionError

UiCallback(event) ==
  /\ uiConnected' = UiConnectedAfter(event)
  /\ frameTimer' = FrameTimerAfter(UiConnectedAfter(event))
  /\ timers' = FrameTimers(timers, frameTimer, uiConnected, UiConnectedAfter(event))
  /\ connectionError' = ConnectionErrorAfter(event)
  /\ UNCHANGED <<mounted, capturing, frameTicks, poking>>

\* ------------------------------------------------------------------- mute
\* mute() stopping what plays and resetting the cursor as an interruption does.
Mute_Flush(muted) ==
  /\ gain' = (IF gainNode /\ audioContext # "null"
              THEN (IF muted THEN 0 ELSE 1) ELSE gain)
  /\ activeSources' = <<>>
  /\ audioQueueNextStartTime' = now
  /\ UNCHANGED <<session, audioContext, gainNode, isConnected, inputMediaStream,
                 inputAudioContext, env, ctl, ui, out, hist,
                 onErrorCalls, micNotice, subtitled, inbox, failed, frameLog, aux>>

\* geminiLiveService.ts 269-276: mute(muted) sets the gain of the output node
\* when there is one; it reads and writes nothing else of the service.
Mute(muted) ==
  /\ gain' = (IF gainNode /\ audioContext # "null"
              THEN (IF muted THEN 0 ELSE 1) ELSE gain)
  /\ UNCHANGED <<svc, env, ctl, ui, out, hist,
                 onErrorCalls, micNotice, subtitled, inbox, failed, frameLog, aux>>

\* ------------------------------------------------------------- disconnect
\* geminiLiveService.ts 286-314: the await at which disconnect() next suspends,
\* having got past `from`, for the given values of the three fields it tests.
DiscNext(from, inCtx, sess, outCtx) ==
  IF from = "start" /\ inCtx # "null" THEN "awInput"
  ELSE IF from \in {"start", "awInput"} /\ sess # "null" THEN "awSession"
  ELSE IF from \in {"start", "awInput", "awSession"} /\ outCtx # "null" THEN "awCtx"
  ELSE "done"

\* session.close() (299) on the channel.
ChanAfterClose(nxt, ch) ==
  IF nxt = "awSession" /\ ch \in {"open", "errored"} THEN "closing" ELSE ch

\* geminiLiveService.ts 278-314 up to the first await: isConnected is cleared,
\* every active source stopped and the list emptied, the microphone tracks
\* stopped and the stream dropped; then the first close() that applies is called.
DisconnectBegin(by, ch) ==
  LET nxt == DiscNext("start", inputAudioContext, session, audioContext) IN
  /\ isConnected' = FALSE
  /\ stopped' = stopped \cup Range(activeSources)
  /\ activeSources' = <<>>
  /\ micTracks' = (IF inputMediaStream # "null" THEN "stopped" ELSE micTracks)
  /\ inputMediaStream' = "null"
  /\ inputAudioContext' = (IF nxt = "awInput" THEN "closed" ELSE inputAudioContext)
  /\ chan' = ChanAfterClose(nxt, ch)
  /\ audioContext' = (IF nxt = "awCtx" THEN "closed" ELSE audioContext)
  /\ discPc' = Append(discPc, [pc |-> nxt, during |-> connectPc, by |-> by])
  /\ UNCHANGED <<session, gainNode, audioQueueNextStartTime, now,
                 sched, ended, epoch, intrTime, intrMsg, handler, msgCount, out>>

\* A caller of the service calls disconnect().
ApiDisconnect ==
  /\ Cardinality({i \in 1..Len(discPc) : discPc[i].by = "api"}) < MaxDisc
  /\ DisconnectBegin("api", chan)
  /\ UNCHANGED <<connectPc, ui, obs, aux>>

\* VideoPlayer's onTimeUpdate (part_001) hands the video element's currentTime
\* to LiveCaster's setCurrentTime (680). The element shows its controls unless
\* the source is a screen capture, so the position can move either way.
SetCurrentTime(t) ==
  /\ mounted /\ connectPc # "idle"
  /\ videoTime' = t
  /\ UNCHANGED <<svc, env, ctl, ui, out, hist, obs, uncaught, tap, pcm,
                 events, handedOff, transcript, allText, hypeLevel, hypeModifier, late,
                 ext>>

\* LiveCaster 589-610: the highlight button calls addEvent, which appends an
\* event stamped with currentTime. n is the ordinal of the addition (the source
\* gives each event a random id).
HandleManualHighlight(limit) ==
  /\ mounted /\ connectPc # "idle" /\ Len(events) < limit
  /\ events' = Append(events, [n |-> Len(events) + 1, timestamp |-> videoTime])
  /\ UNCHANGED <<svc, env, ctl, ui, out, hist, obs, uncaught, tap, pcm,
                 videoTime, handedOff, transcript, allText, hypeLevel, hypeModifier, late,
                 ext>>

\* stream.getTracks().forEach(track => track.stop()) on stream s of the
\* acquired streams (part_002 31, 48, 102, 164, 547); s = 0 is no stream.
StopTracks(all, s) ==
  [x \in DOMAIN all |-> IF x = s /\ all[x] = "live" THEN "stopped" ELSE all[x]]

\* STOP CASTING (661) or the end of the video (679) calls onFinish(events);
\* App's handleFinish (part_000 19-22) keeps the list and leaves the LIVE
\* screen, which unmounts LiveCaster. LiveCaster 542-550: the effect cleanup
\* then clears the interval, calls disconnect() and stops the tracks of
\* config.mediaSource.
Unmount ==
  /\ mounted /\ connectPc # "idle"
  /\ mounted' = FALSE /\ frameTimer' = FALSE
  /\ handedOff' = Append(handedOff, events)
  /\ DisconnectBegin("cleanup", chan)
  /\ timers' = timers - (IF frameTimer THEN 1 ELSE 0)
  /\ safetyTimer' = (IF safetyTimer = "pending" THEN "cleared" ELSE safetyTimer)
  /\ streams' = StopTracks(streams, mediaSource)
  /\ UNCHANGED <<relink, screenStream, screenStep, streamKeepAlive, shareReqs,
                 homeMounted, mediaSource, rep>>
  /\ UNCHANGED <<connectPc, uiConnected, capturing, frameTicks, poking, obs,
                 uncaught, tap, pcm, videoTime, events, transcript, allText,
                 hypeLevel, hypeModifier, connectionError>>

\* disconnect() call i resumes from its await: the field it was closing is
\* nulled (292, 304, 313) and the next close() that applies is called.
DisconnectResume(i) ==
  /\ i \in 1..Len(discPc) /\ discPc[i].pc \in {"awInput", "awSession", "awCtx"}
  /\ LET from == discPc[i].pc
         ia == IF from = "awInput" THEN "null" ELSE inputAudioContext
         se == IF from = "awSession" THEN "null" ELSE session
         oc == IF from = "awCtx" THEN "null" ELSE audioContext
         nxt == DiscNext(from, ia, se, oc)
     IN /\ inputAudioContext' = ia
        /\ session' = se
        /\ chan' = ChanAfterClose(nxt, chan)
        /\ audioContext' = (IF nxt = "awCtx" THEN "closed" ELSE oc)
        /\ discPc' = [discPc EXCEPT ![i].pc = nxt]
  /\ UNCHANGED <<gainNode, audioQueueNextStartTime, isConnected, activeSources,
                 inputMediaStream, now, micTracks, connectPc, handler, msgCount,
                 ui, out, hist, obs, aux>>

\* Any suspended disconnect() call may be the next to resume.
ResumeDisconnect == \E i \in 1..Len(discPc) : DisconnectResume(i)

\* geminiLiveService.ts 317-323, startVisualizer: it returns at once unless
\* isConnected is set and there is an analyser; otherwise it requests the next
\* animation frame (which calls it again) and hands the analyser to
\* onAudioData when that callback is registered. Its only call is connect's
\* line 58.
StartVisualizer(connected, analyser, registered) ==
  IF ~connected \/ ~analyser
  THEN [raf |-> FALSE, delivered |-> FALSE]
  ELSE [raf |-> TRUE, delivered |-> registered]

\* ---------------------------------------------------------------- connect
\* connect() marking the service connected as soon as it asks for the channel.
Connect_Eager ==
  /\ mounted /\ connectPc = "idle" /\ discPc = <<>>
  /\ audioContext' = "running" /\ gainNode' = TRUE /\ now' = 0
  /\ chan' = "connecting" /\ connectPc' = "awaitChannel"
  /\ isConnected' = TRUE
  /\ UNCHANGED <<session, audioQueueNextStartTime, activeSources,
                 inputMediaStream, inputAudioContext, micTracks, discPc, handler,
                 msgCount, ui, out, hist, obs, aux>>

\* geminiLiveService.ts 46-91 up to `await this.client.live.connect(config)`:
\* a new output context (its clock starts at 0) and gain node; startVisualizer()
\* returns at once because isConnected is still false. LiveCaster calls connect
\* once on a service it has just constructed, from its mount effect, which
\* sets the 15 s safety timeout in the same turn (part_002 530-540).
Connect ==
  /\ mounted /\ connectPc = "idle" /\ discPc = <<>>
  /\ audioContext' = "running" /\ gainNode' = TRUE /\ now' = 0
  /\ chan' = "connecting" /\ connectPc' = "awaitChannel"
  /\ LET v == StartVisualizer(isConnected, TRUE, taps)
     IN vizLoop' = v.raf /\ tapOut' = (tapOut \/ v.delivered)
  /\ safetyTimer' = "pending"
  /\ UNCHANGED <<session, audioQueueNextStartTime, isConnected, activeSources,
                 inputMediaStream, inputAudioContext, micTracks, discPc, handler,
                 msgCount, ui, out, hist, obs, uncaught, taps, tapIn, cast, pcm,
                 timers, connectionError, ext>>

\* The channel opens: onopen (71-75) sets isConnected and calls LiveCaster's
\* onOpen; connect() then resumes at 91, stores the session and calls
\* startAudioInput, which suspends at getUserMedia (105).
ChannelOpen ==
  /\ chan = "connecting" /\ connectPc = "awaitChannel"
  /\ chan' = "open" /\ isConnected' = TRUE /\ UiCallback("open")
  /\ session' = "set" /\ connectPc' = "awaitMic"
  /\ UNCHANGED <<audioContext, gainNode, audioQueueNextStartTime, activeSources,
                 inputMediaStream, inputAudioContext, now, micTracks, discPc,
                 handler, msgCount, out, hist, obs,
                 uncaught, tap, cast, pcm, safetyTimer, ext>>

\* The catch of connect() without its call of disconnect().
ChannelFail_NoTeardown ==
  /\ chan = "connecting" /\ connectPc = "awaitChannel"
  /\ UiCallback("error")
  /\ chan' = "failed" /\ connectPc' = "returned"
  /\ onErrorCalls' = onErrorCalls + 1
  /\ UNCHANGED <<svc, now, micTracks, discPc, handler, msgCount, out, hist,
                 micNotice, gain, subtitled, inbox, failed, frameLog,
                 uncaught, tap, cast, pcm, safetyTimer, ext>>

\* Channel establishment fails: connect() resumes in its catch (96-99), calls
\* onError (LiveCaster 511-516) and disconnect() without awaiting it, and returns.
ChannelFail ==
  /\ chan = "connecting" /\ connectPc = "awaitChannel"
  /\ UiCallback("error")
  /\ DisconnectBegin("catch", "failed")
  /\ connectPc' = "returned"
  /\ onErrorCalls' = onErrorCalls + 1
  /\ UNCHANGED <<micNotice, gain, subtitled, inbox, failed, frameLog,
                 uncaught, tap, cast, pcm, safetyTimer, ext>>

\* startAudioInput in which handing the analyser to a registered callback also
\* flushes the output timeline.
MicGranted_TapFlush ==
  /\ connectPc = "awaitMic"
  /\ inputMediaStream' = "live" /\ micTracks' = "live" /\ inputAudioContext' = "running"
  /\ connectPc' = "returned"
  /\ tapIn' = (tapIn \/ taps)
  /\ activeSources' = (IF taps THEN <<>> ELSE activeSources)
  /\ UNCHANGED <<session, audioContext, gainNode, audioQueueNextStartTime, isConnected,
                 chan, now, discPc, handler, msgCount, ui, out, hist, obs,
                 uncaught, taps, tapOut, vizLoop, cast, pcm, late, ext>>

\* geminiLiveService.ts 105-141: getUserMedia resolves; the input context and
\* the script processor are created and connect() returns.
MicGranted ==
  /\ connectPc = "awaitMic"
  /\ inputMediaStream' = "live" /\ micTracks' = "live" /\ inputAudioContext' = "running"
  /\ connectPc' = "returned"
  /\ tapIn' = (tapIn \/ taps)
  /\ UNCHANGED <<session, audioContext, gainNode, audioQueueNextStartTime, isConnected,
                 activeSources, chan, now, discPc, handler, msgCount, ui, out, hist, obs,
                 uncaught, taps, tapOut, vizLoop, cast, pcm, late, ext>>

\* startAudioInput with its catch treating the failure as one of the session.
MicDenied_Fatal ==
  /\ connectPc = "awaitMic"
  /\ connectPc' = "returned"
  /\ micNotice' = TRUE
  /\ UiCallback("error")
  /\ DisconnectBegin("catch", chan)
  /\ onErrorCalls' = onErrorCalls + 1
  /\ UNCHANGED <<gain, subtitled, inbox, failed, frameLog,
                 uncaught, tap, cast, pcm, safetyTimer, ext>>

\* geminiLiveService.ts 143-145: getUserMedia rejects; logged, connect() returns.
MicDenied ==
  /\ connectPc = "awaitMic"
  /\ connectPc' = "returned"
  /\ micNotice' = TRUE
  /\ UNCHANGED <<svc, env, discPc, handler, msgCount, ui, out, hist,
                 onErrorCalls, gain, subtitled, inbox, failed, frameLog, aux>>

\* geminiLiveService.ts 105-106 and 143-145: getUserMedia resolves and the
\* stream is stored, but setting up the input pipeline throws; logged by the
\* same catch, connect() returns.
MicSetupFail ==
  /\ connectPc = "awaitMic"
  /\ inputMediaStream' = "live" /\ micTracks' = "live"
  /\ connectPc' = "returned"
  /\ micNotice' = TRUE
  /\ UNCHANGED <<session, audioContext, gainNode, audioQueueNextStartTime, isConnected,
                 activeSources, inputAudioContext, chan, now, discPc, handler,
                 msgCount, ui, out, hist,
                 onErrorCalls, gain, subtitled, inbox, failed, frameLog, aux>>

\* geminiLiveService.ts 76-80: onclose, after the server or session.close()
\* closed the channel.
ChannelClose ==
  /\ chan \in {"open", "closing", "errored"}
  /\ chan' = "closed" /\ isConnected' = FALSE /\ UiCallback("close")
  /\ UNCHANGED <<session, audioContext, gainNode, audioQueueNextStartTime, activeSources,
                 inputMediaStream, inputAudioContext, now, micTracks, ctl, out, hist, obs,
                 uncaught, tap, cast, pcm, safetyTimer, ext>>

\* geminiLiveService.ts 81-84: onerror logs and calls LiveCaster's onError.
ChannelError ==
  /\ chan = "open"
  /\ chan' = "errored" /\ UiCallback("error")
  /\ onErrorCalls' = onErrorCalls + 1
  /\ UNCHANGED <<svc, now, micTracks, ctl, out, hist,
                 micNotice, gain, subtitled, inbox, failed, frameLog,
                 uncaught, tap, cast, pcm, safetyTimer, ext>>

\* ------------------------------------------------------ outbound producers
\* geminiLiveService.ts 116 and 256: what both senders test before they hand
\* anything to the channel.
SendGuard_Always(connected, sess) == TRUE
SendGuard(connected, sess) == connected /\ sess # "null"

\* -------------------------------------------------------------- onSubtitle
\* A text is a sequence of characters. The characters of the k-th subtitle text
\* are all k; Space is the separator onSubtitle puts in, Dot a character of
\* the marker "...".
Space == 0
Dot == -1
Ellipsis == <<Dot, Dot, Dot>>
TranscriptBudget == 150
TextLens == {1, 40, 149, 150, 160}

SubtitleCount == Cardinality({i \in 1..Len(allText) : allText[i] = Space})

\* The last n characters of q (q.slice(q.length - n)).
LastChars(q, n) == SubSeq(q, Len(q) - n + 1, Len(q))

\* onSubtitle keeping the first characters of the buffer instead of the last.
OnSubtitle_KeepHead(limit, len) ==
  /\ mounted /\ SubtitleCount < limit
  /\ LET text == [i \in 1..len |-> SubtitleCount + 1]
         next == transcript \o <<Space>> \o text
     IN /\ transcript' = (IF Len(next) > TranscriptBudget
                          THEN Ellipsis \o SubSeq(next, 1, TranscriptBudget)
                          ELSE next)
        /\ allText' = allText \o <<Space>> \o text
  /\ UNCHANGED <<svc, env, ctl, ui, out, hist, obs, uncaught, tap, pcm,
                 videoTime, events, handedOff, hypeLevel, hypeModifier, late, ext>>

\* LiveCaster 517-520: onSubtitle appends a space and the text to the buffer
\* and, when that is longer than 150 characters, keeps "..." and the last 150.
OnSubtitle(limit, len) ==
  /\ mounted /\ SubtitleCount < limit
  /\ LET text == [i \in 1..len |-> SubtitleCount + 1]
         next == transcript \o <<Space>> \o text
     IN /\ transcript' = (IF Len(next) > TranscriptBudget
                          THEN Ellipsis \o LastChars(next, TranscriptBudget)
                          ELSE next)
        /\ allText' = allText \o <<Space>> \o text
  /\ UNCHANGED <<svc, env, ctl, ui, out, hist, obs, uncaught, tap, pcm,
                 videoTime, events, handedOff, hypeLevel, hypeModifier, late, ext>>

\* ----------------------------------------------------------- HYPE_MODIFIER
\* The slider of Home runs from 0 to HypeMax (part_002 285-286).
HypeMax == 100

\* The thresholds taken as part of the calm and of the maximum range.
HYPE_MODIFIER_Inclusive(level) ==
  IF level <= 30 THEN " Keep it calm."
  ELSE IF level >= 70 THEN " MAXIMUM VOLUME AND SPEED."
  ELSE " Balanced energy."

\* constants.ts 45-49.
HYPE_MODIFIER(level) ==
  IF level < 30 THEN " Keep it calm."
  ELSE IF level > 70 THEN " MAXIMUM VOLUME AND SPEED."
  ELSE " Balanced energy."

\* LiveCaster 489-492: initService builds the system instruction from the
\* style and HYPE_MODIFIER(config.hypeLevel).
BuildInstructions ==
  /\ hypeModifier' = HYPE_MODIFIER(hypeLevel)
  /\ UNCHANGED <<svc, env, ctl, ui, out, hist, obs, uncaught, tap, pcm,
                 videoTime, events, handedOff, transcript, allText, hypeLevel, late,
                 ext>>

\* ------------------------------------------------------------ createPcmData
\* A sample is the fraction n / SampleDen; SampleNums are the numerators used:
\* both ends of [-1, 1], zero, values inside and values outside the range.
SampleDen == 4
SampleNums == {-8, -5, -4, -3, -1, 0, 1, 3, 4, 5, 8}

RECURSIVE SeqsUpTo(_, _)
SeqsUpTo(S, n) ==
  IF n = 0 THEN {<<>>}
  ELSE LET shorter == SeqsUpTo(S, n - 1)
       IN shorter \cup {Append(q, x) : q \in shorter, x \in S}

\* Math.max(-1, Math.min(1, data[i])) on numerators.
ClampSample(n) ==
  IF n > SampleDen THEN SampleDen ELSE IF n < -SampleDen THEN -SampleDen ELSE n

\* Storing a number in an Int16Array element: the fraction is dropped (towards
\* zero) and the integer wraps modulo 2^16 into -32768..32767.
ToInt16(num, den) ==
  LET t == IF num >= 0 THEN num \div den ELSE -((-num) \div den)
  IN ((t + 32768) % 65536) - 32768

\* Scaling without the clamp.
PcmSample_NoClamp(n) ==
  ToInt16(IF n < 0 THEN n * 32768 ELSE n * 32767, SampleDen)

\* createPcmData 152-153: clamp, then s < 0 ? s * 0x8000 : s * 0x7FFF.
PcmSample(n) ==
  LET s == ClampSample(n)
  IN ToInt16(IF s < 0 THEN s * 32768 ELSE s * 32767, SampleDen)

\* new Uint8Array(int16.buffer), 157: the two bytes of each element in the
\* byte order of the platform, which is little-endian wherever a browser runs.
RECURSIVE PcmBytes(_)
PcmBytes(q) ==
  IF q = <<>> THEN <<>>
  ELSE LET u == (PcmSample(Head(q)) + 65536) % 65536
       IN <<u % 256, u \div 256>> \o PcmBytes(Tail(q))

\* btoa (162): three bytes give four six-bit digits; 64 stands for the pad "=".
RECURSIVE Base64(_)
Base64(b) ==
  IF Len(b) = 0 THEN <<>>
  ELSE IF Len(b) = 1
       THEN <<b[1] \div 4, (b[1] % 4) * 16, 64, 64>>
  ELSE IF Len(b) = 2
       THEN <<b[1] \div 4, (b[1] % 4) * 16 + b[2] \div 16, (b[2] % 16) * 4, 64>>
  ELSE <<b[1] \div 4, (b[1] % 4) * 16 + b[2] \div 16,
         (b[2] % 16) * 4 + b[3] \div 64, b[3] % 64>>
       \o Base64(SubSeq(b, 4, Len(b)))

\* createPcmData (148-163) is applied to the samples in pcmIn.
CreatePcmData ==
  /\ pcmOut' = <<Base64(PcmBytes(pcmIn))>>
  /\ UNCHANGED <<svc, env, ctl, ui, out, hist, obs, uncaught, tap, cast, pcmIn, late,
                 ext>>

\* onaudioprocess holding the microphone back once an interruption has been
\* handled.
OnAudioProcess_HeldAfterInterrupt(limit) ==
  /\ inputAudioContext = "running" /\ micWin < limit
  /\ micWin' = micWin + 1
  /\ audioChunks' = (IF SendGuard(isConnected, session) /\ epoch = 0
                     THEN Append(audioChunks, micWin + 1) ELSE audioChunks)
  /\ UNCHANGED <<svc, env, ctl, ui, frameChunks, hist, obs, aux>>

\* onaudioprocess putting the newest window ahead of those already handed over.
OnAudioProcess_NewestFirst(limit) ==
  /\ inputAudioContext = "running" /\ micWin < limit
  /\ micWin' = micWin + 1
  /\ audioChunks' = (IF SendGuard(isConnected, session)
                     THEN <<micWin + 1>> \o audioChunks ELSE audioChunks)
  /\ UNCHANGED <<svc, env, ctl, ui, frameChunks, hist, obs, aux>>

\* geminiLiveService.ts 115-127: onaudioprocess for one 4096-sample window: it
\* is sent at once or not at all; nothing is kept for later.
OnAudioProcess(limit) ==
  /\ inputAudioContext = "running" /\ micWin < limit
  /\ micWin' = micWin + 1
  /\ audioChunks' = (IF SendGuard(isConnected, session)
                     THEN Append(audioChunks, micWin + 1) ELSE audioChunks)
  /\ UNCHANGED <<svc, env, ctl, ui, frameChunks, hist, obs, aux>>

\* onaudioprocess (115-127) in which session.sendRealtimeInput throws: the
\* call is in no try block, so the exception leaves the callback and reaches
\* the event dispatch of the input context; the window is not sent.
OnAudioProcessSendFails(limit) ==
  /\ inputAudioContext = "running" /\ micWin < limit
  /\ SendGuard(isConnected, session)
  /\ micWin' = micWin + 1
  /\ uncaught' = uncaught + 1
  /\ UNCHANGED <<svc, env, ctl, ui, audioChunks, frameChunks, hist, obs, tap, cast, pcm, late,
                 ext>>

\* LiveCaster 570-572 and 557-560: an interval tick calls sendFrame, which
\* suspends at `await videoRef.current.getFrame()`.
FrameTick(limit) ==
  /\ frameTimer /\ frameTicks < limit
  /\ frameTicks' = frameTicks + 1 /\ capturing' = capturing + 1
  /\ frameLog' = Append(frameLog, "tick")
  /\ UNCHANGED <<svc, env, ctl, mounted, uiConnected, frameTimer, poking, out, hist,
                 onErrorCalls, micNotice, gain, subtitled, inbox, failed, aux>>

\* How a capture ends: getFrame resolves with a frame and the send succeeds,
\* getFrame resolves with null (part_001 22-60), or session.sendRealtimeInput
\* throws (caught at geminiLiveService.ts 264).
FrameOutcomes == {"frame", "null", "sendFails"}

\* sendFrame clearing the interval when a capture gives no frame or a send fails.
FrameCaptured_StopOnFailure(frame) ==
  /\ capturing > 0
  /\ capturing' = capturing - 1
  /\ frameChunks' = (IF frame = "frame" /\ SendGuard(isConnected, session)
                     THEN frameChunks + 1 ELSE frameChunks)
  /\ frameLog' = Append(frameLog, frame)
  /\ frameTimer' = (frame = "frame" /\ frameTimer)
  /\ UNCHANGED <<svc, env, ctl, mounted, uiConnected, frameTicks,
                 poking, micWin, audioChunks, hist,
                 onErrorCalls, micNotice, gain, subtitled, inbox, failed, aux>>

\* LiveCaster 561-565 and geminiLiveService.ts 255-266: getFrame resolves with a
\* frame or null; a frame goes to sendVideoFrame, which sends it when
\* isConnected and session are set and swallows a failure of the send.
FrameCaptured(frame) ==
  /\ capturing > 0
  /\ capturing' = capturing - 1
  /\ frameChunks' = (IF frame = "frame" /\ SendGuard(isConnected, session)
                     THEN frameChunks + 1 ELSE frameChunks)
  /\ frameLog' = Append(frameLog, frame)
  /\ UNCHANGED <<svc, env, ctl, mounted, uiConnected, frameTimer, frameTicks,
                 poking, micWin, audioChunks, hist,
                 onErrorCalls, micNotice, gain, subtitled, inbox, failed, aux>>

\* Pokes made so far.
Pokes == Cardinality({i \in 1..Len(frameLog) : frameLog[i] = "poke"})

\* LiveCaster 612-616: the Manual Poke button calls handleForceStart, which
\* suspends at `await videoRef.current.getFrame()`; liveServiceRef is set from
\* the mount on, whatever the state of the channel.
ForceStart ==
  /\ mounted /\ connectPc # "idle" /\ Pokes < MaxPokes
  /\ poking' = poking + 1
  /\ frameLog' = Append(frameLog, "poke")
  /\ UNCHANGED <<svc, env, ctl, mounted, uiConnected, frameTimer, capturing,
                 frameTicks, out, hist,
                 onErrorCalls, micNotice, gain, subtitled, inbox, failed, aux>>

\* LiveCaster 616-620 and geminiLiveService.ts 255-266: the poke's getFrame
\* resolves and a frame goes to sendVideoFrame, as for a timer tick.
ForceStartCaptured(frame) ==
  /\ poking > 0
  /\ poking' = poking - 1
  /\ frameChunks' = (IF frame = "frame" /\ SendGuard(isConnected, session)
                     THEN frameChunks + 1 ELSE frameChunks)
  /\ frameLog' = Append(frameLog, IF frame = "frame" THEN "pokeFrame"
                                   ELSE "pokeNoFrame")
  /\ UNCHANGED <<svc, env, ctl, mounted, uiConnected, frameTimer, capturing,
                 frameTicks, micWin, audioChunks, hist,
                 onErrorCalls, micNotice, gain, subtitled, inbox, failed, aux>>

\* The part of the system that reads or writes the output timeline: inbound
\* messages, decodes, unit completions, the clock, and teardown by LiveCaster.
\* connect() stays at its await of the microphone, whose outcomes write no
\* field of the timeline (they are in NextMic).
NextSched ==
  \/ Connect
  \/ ChannelOpen
  \/ \E a \in Payloads, i \in BOOLEAN : OnMessage(MaxMsgs, a, i)
  \/ \E k \in Msgs : DecodeDone(k)
  \/ \E k \in Msgs : DecodeFail(k)
  \/ \E k \in Msgs : OnEnded(k)
  \/ Tick(MaxTime)
  \/ Unmount
  \/ ResumeDisconnect

SpecSched == Init /\ [][NextSched]_vars

\* The whole session: lifecycle, channel events, producers and the timeline.
Next ==
  \/ Connect
  \/ ChannelOpen
  \/ ChannelFail
  \/ MicGranted
  \/ MicDenied
  \/ MicSetupFail
  \/ ChannelClose
  \/ ChannelError
  \/ \E a \in Payloads, i \in BOOLEAN : OnMessage(MaxLifeMsgs, a, i)
  \/ \E k \in Msgs : DecodeDone(k)
  \/ \E k \in Msgs : DecodeFail(k)
  \/ \E k \in Msgs : OnEnded(k)
  \/ Tick(MaxLifeTime)
  \/ ApiDisconnect
  \/ Unmount
  \/ ResumeDisconnect
  \/ OnAudioProcess(MaxLifeWin)
  \/ FrameTick(MaxLifeFrames)
  \/ \E f \in FrameOutcomes : FrameCaptured(f)

Spec == Init /\ [][Next]_vars

\* The life of one connection without its traffic: establishment and its
\* failure, the microphone, close and error of the channel, and teardown.
NextConn ==
  \/ Connect
  \/ ChannelOpen
  \/ ChannelFail
  \/ MicGranted
  \/ MicDenied
  \/ MicSetupFail
  \/ ChannelClose
  \/ ChannelError
  \/ ApiDisconnect
  \/ Unmount
  \/ ResumeDisconnect

SpecConn == Init /\ [][NextConn]_vars

\* Inbound dispatch on an open channel: messages with any combination of
\* parts, their decodes and the clock.
NextDispatch ==
  \/ Connect
  \/ ChannelOpen
  \/ \E a \in Payloads, t, i \in BOOLEAN : OnMessageLogged(MaxDispMsgs, a, t, i)
  \/ \E k \in Msgs : DecodeDone(k)
  \/ \E k \in Msgs : DecodeFail(k)
  \/ Tick(MaxDispTime)

SpecDispatch == Init /\ [][NextDispatch]_vars

\* The outcomes of the microphone on an open channel, with inbound audio.
NextMic ==
  \/ Connect
  \/ ChannelOpen
  \/ MicGranted
  \/ MicDenied
  \/ MicSetupFail
  \/ \E a \in Payloads, i \in BOOLEAN : OnMessage(MaxLifeMsgs, a, i)
  \/ \E k \in Msgs : DecodeDone(k)
  \/ \E k \in Msgs : DecodeFail(k)
  \/ \E k \in Msgs : OnEnded(k)
  \/ Tick(MaxLifeTime)

SpecMic == Init /\ [][NextMic]_vars

\* Mute and unmute while inbound audio is scheduled and plays.
NextMute ==
  \/ Connect
  \/ ChannelOpen
  \/ \E m \in BOOLEAN : Mute(m)
  \/ \E a \in Payloads, i \in BOOLEAN : OnMessage(MaxDispMsgs, a, i)
  \/ \E k \in Msgs : DecodeDone(k)
  \/ \E k \in Msgs : OnEnded(k)
  \/ Tick(MaxDispTime)

SpecMute == Init /\ [][NextMute]_vars

\* The outbound side of one connection: microphone windows and video frames
\* against the opening, closing and teardown of the channel.
NextOut ==
  \/ Connect
  \/ ChannelOpen
  \/ ChannelFail
  \/ MicGranted
  \/ ChannelClose
  \/ ChannelError
  \/ Unmount
  \/ ResumeDisconnect
  \/ OnAudioProcess(MaxWin)
  \/ FrameTick(MaxFrames)
  \/ \E f \in FrameOutcomes : FrameCaptured(f)

SpecOut == Init /\ [][NextOut]_vars

\* The highlight log: the video position moving, highlights being added, and
\* the end of the session.
NextLog ==
  \/ Connect
  \/ ChannelOpen
  \/ MicGranted
  \/ \E t \in 0..MaxVideoTime : SetCurrentTime(t)
  \/ HandleManualHighlight(MaxEvents)
  \/ Unmount
  \/ ResumeDisconnect

SpecLog == Init /\ [][NextLog]_vars

\* The service constructed with or without the visualization callbacks (both
\* are optional in LiveServiceCallbacks), then the same messages, clock
\* readings and lifecycle calls.
InitTap == InitService /\ taps \in BOOLEAN /\ hypeLevel = 50 /\ pcmIn = <<>>

NextTap ==
  \/ Connect
  \/ ChannelOpen
  \/ MicGranted
  \/ \E a \in Payloads, i \in BOOLEAN : OnMessage(MaxLifeMsgs, a, i)
  \/ \E k \in Msgs : DecodeDone(k)
  \/ \E k \in Msgs : OnEnded(k)
  \/ Tick(MaxLifeTime)
  \/ ChannelClose
  \/ Unmount
  \/ ResumeDisconnect

SpecTap == InitTap /\ [][NextTap]_vars

\* createPcmData applied to every sequence of up to MaxSamples samples.
InitPcm ==
  /\ InitService /\ taps = TRUE /\ hypeLevel = 50
  /\ pcmIn \in SeqsUpTo(SampleNums, MaxSamples)

NextPcm == CreatePcmData

SpecPcm == InitPcm /\ [][NextPcm]_vars

\* HYPE_MODIFIER applied to every level the slider can give.
InitHype ==
  /\ InitService /\ taps = TRUE /\ pcmIn = <<>>
  /\ hypeLevel \in 0..HypeMax

NextHype == BuildInstructions

SpecHype == InitHype /\ [][NextHype]_vars

\* Subtitle texts of several lengths arriving one after the other.
NextSubs == \E len \in TextLens : OnSubtitle(MaxSubs, len)

SpecSubs == Init /\ [][NextSubs]_vars

\* Everything the claim on the cursor names: messages with audio, messages with
\* transcript text, either with or without the interruption flag, decodes that
\* finish or fail, mute toggles, unit completions and the clock. (Messages that
\* carry audio and text together are in SpecDispatch.)
NextCursor ==
  \/ Connect
  \/ ChannelOpen
  \/ \E a \in Payloads, i \in BOOLEAN : OnMessage(MaxDispMsgs, a, i)
  \/ \E i \in BOOLEAN : OnTranscript(MaxDispMsgs, i)
  \/ \E k \in Msgs : DecodeDone(k)
  \/ \E k \in Msgs : DecodeFail(k)
  \/ \E k \in Msgs : OnEnded(k)
  \/ \E m \in BOOLEAN : Mute(m)
  \/ Tick(MaxDispTime)

SpecCursor == Init /\ [][NextCursor]_vars

\* Inbound messages, with and without the interruption flag, beside the
\* microphone and the frame timer.
NextBarge ==
  \/ Connect
  \/ ChannelOpen
  \/ MicGranted
  \/ \E a \in Payloads, i \in BOOLEAN : OnMessage(MaxLifeMsgs, a, i)
  \/ \E k \in Msgs : DecodeDone(k)
  \/ Tick(MaxLifeTime)
  \/ OnAudioProcess(MaxLifeWin)
  \/ FrameTick(MaxLifeFrames)
  \/ \E f \in FrameOutcomes : FrameCaptured(f)

SpecBarge == Init /\ [][NextBarge]_vars

\* The outbound paths with the sends that fail: a microphone window whose send
\* throws, and a frame whose send throws (the "sendFails" outcome).
NextSend ==
  \/ Connect
  \/ ChannelOpen
  \/ MicGranted
  \/ ChannelClose
  \/ Unmount
  \/ ResumeDisconnect
  \/ OnAudioProcess(MaxWin)
  \/ OnAudioProcessSendFails(MaxWin)
  \/ FrameTick(MaxFrames)
  \/ \E f \in FrameOutcomes : FrameCaptured(f)

SpecSend == Init /\ [][NextSend]_vars

\* Everything that could hand something to the channel, from construction
\* on: the microphone, the frame timer and the Manual Poke button, against the
\* opening, failure, closing and teardown of the channel.
NextOpen ==
  \/ Connect
  \/ ChannelOpen
  \/ ChannelFail
  \/ MicGranted
  \/ ChannelClose
  \/ ChannelError
  \/ Unmount
  \/ ResumeDisconnect
  \/ OnAudioProcess(MaxLifeWin)
  \/ FrameTick(MaxLifeFrames)
  \/ \E f \in FrameOutcomes : FrameCaptured(f)
  \/ ForceStart
  \/ \E f \in FrameOutcomes : ForceStartCaptured(f)

SpecOpen == Init /\ [][NextOpen]_vars

\* ------------------------------------------------------------------ claims
\* No asynchronous step of connect, disconnect or handleMessage is pending.
Settled ==
  /\ connectPc = "returned"
  /\ \A i \in 1..Len(discPc) : discPc[i].pc = "done"
  /\ \A k \in Msgs : handler[k].pc # "decoding"

\* Unit i+1 was started with no interruption handled since unit i was, and
\* while the cursor was at or ahead of the output clock.
Contiguous(i) ==
  /\ sched[i + 1].epoch = sched[i].epoch
  /\ sched[i + 1].at <= sched[i + 1].cur0

RECURSIVE SumDur(_, _)
SumDur(i, j) == IF i > j THEN 0 ELSE sched[i].dur + SumDur(i + 1, j)

\* C1: the step in which handleMessage handles an interruption flag leaves
\* activeSources empty and the cursor equal to the output clock (when there is
\* an output context to read it from), and every unit started after an
\* interruption starts at or after the clock reading of that interruption.
C1_InterruptionResetsTimeline ==
  /\ [][epoch' # epoch =>
          /\ activeSources' = <<>>
          /\ (audioContext # "null" => audioQueueNextStartTime' = now')]_vars
  /\ [](\A i \in 1..Len(sched) : sched[i].start >= sched[i].since)

\* An interruption stopped a unit whose span reached past the clock, and the
\* next unit was started afterwards, inside that span.
C1_Witness ==
  \E i, j \in 1..Len(sched) :
     /\ j < i /\ sched[j].msg \in stopped /\ sched[i].epoch > sched[j].epoch
     /\ sched[i].since >= 0
     /\ sched[i].start < sched[j].start + sched[j].dur
     /\ mounted

\* C2: once an interruption has been handled, no unit decoded from a payload
\* that arrived before the interruption's message is in activeSources.
C2_NoStaleAudioAfterBargeIn ==
  \A i \in 1..Len(activeSources) : activeSources[i] >= intrMsg

\* C3: of two audio payloads the one that arrived first is started first, and
\* (no interruption being handled between the two starts) it ends at or before
\* the start of the other.
C3_ArrivalOrderScheduling ==
  \A i, j \in 1..Len(sched) :
     (sched[i].msg < sched[j].msg /\ sched[i].epoch = sched[j].epoch)
        => (i < j /\ sched[i].start + sched[i].dur <= sched[j].start)

\* C4: over any run of units each started with no interruption in between and
\* with the cursor at or ahead of the clock, every unit starts exactly where the
\* one before it ends, no two overlap, the run spans the sum of the durations,
\* and the cursor after the last unit is the end of that unit.
C4_GaplessScheduling ==
  /\ \A i \in 1..(Len(sched) - 1) :
        Contiguous(i) => sched[i + 1].start = sched[i].start + sched[i].dur
  /\ \A i, j \in 1..Len(sched) :
        (i < j /\ \A m \in i..(j - 1) : Contiguous(m))
           => /\ sched[i].start + sched[i].dur <= sched[j].start
              /\ sched[j].start + sched[j].dur = sched[i].start + SumDur(i, j)
  /\ (Len(sched) > 0 /\ epoch = sched[Len(sched)].epoch)
        => audioQueueNextStartTime
              = sched[Len(sched)].start + sched[Len(sched)].dur

\* Two units were started back to back, the second one later than the first.
C4_Witness ==
  /\ Len(sched) >= 2 /\ Contiguous(1)
  /\ sched[2].at > sched[1].at
  /\ audioQueueNextStartTime = sched[1].start + sched[1].dur + sched[2].dur

\* C5: every unit is started at or after the clock reading taken when it is
\* scheduled, and exactly at that reading when the cursor had fallen behind it.
C5_NeverScheduleInThePast ==
  \A i \in 1..Len(sched) :
     /\ sched[i].start >= sched[i].at
     /\ (sched[i].cur0 < sched[i].at => sched[i].start = sched[i].at)

\* A unit was started after an idle period: the cursor left by the unit before
\* it was behind the clock.
C5_Witness ==
  \E i \in 2..Len(sched) :
     /\ sched[i].cur0 = sched[i - 1].start + sched[i - 1].dur
     /\ sched[i].cur0 < sched[i].at

\* Everything disconnect() releases is released.
TornDown ==
  /\ activeSources = <<>>
  /\ inputMediaStream = "null" /\ micTracks # "live"
  /\ inputAudioContext = "null"
  /\ session = "null"
  /\ audioContext = "null"
  /\ ~isConnected

\* C6: if disconnect() was called while connect() was awaiting the channel,
\* then once every pending step has settled the service holds no session, no
\* microphone stream, no input or output context, and isConnected is false.
C6_DisconnectCancelsConnect ==
  ((\E i \in 1..Len(discPc) :
       discPc[i].during = "awaitChannel" /\ discPc[i].by # "catch") /\ Settled)
     => TornDown

\* C7: after disconnect() has been called twice or more and every call has
\* completed, the state is the torn-down one: activeSources empty, microphone
\* stream, input context, session and output context null, isConnected false.
C7_DisconnectIdempotent ==
  (Len(discPc) >= 2 /\ \A i \in 1..Len(discPc) : discPc[i].pc = "done")
     => TornDown

\* C8: a disconnect() call made after connect() had returned leaves, once it
\* has completed, activeSources empty with every unit that was in it stopped,
\* the microphone tracks stopped, the input context, session and output context
\* released, the channel no longer open, and (when LiveCaster's cleanup made
\* the call) no frame timer running.
C8_TeardownComplete ==
  \A i \in 1..Len(discPc) :
     (discPc[i].during = "returned" /\ discPc[i].pc = "done")
        => /\ activeSources = <<>>
           /\ micTracks # "live" /\ inputMediaStream = "null"
           /\ inputAudioContext = "null"
           /\ session = "null" /\ chan \notin {"connecting", "open", "errored"}
           /\ audioContext = "null"
           /\ (discPc[i].by = "cleanup" => ~frameTimer)

\* C9: once disconnect() has been called, isConnected never becomes true again
\* and no audio chunk or video frame is handed to the channel.
C9_TerminalAfterDisconnect ==
  [][Len(discPc) > 0 =>
        /\ (isConnected' => isConnected)
        /\ audioChunks' = audioChunks
        /\ frameChunks' = frameChunks]_vars

\* C10: after the channel has closed or reported an error, the service is no
\* longer connected and, with no asynchronous step left pending, everything is
\* torn down: no active unit, microphone released, session and output context
\* released.
C10_CloseOrErrorTearsDown ==
  (chan \in {"closed", "errored"} /\ connectPc = "returned")
     => /\ ~isConnected
        /\ (Settled => TornDown)

\* C11: when channel establishment fails, connect() returns without throwing,
\* onError has been called exactly once, disconnect() has been called from the
\* catch so that the service is not connected and holds no session and, once
\* every disconnect() call has run to its end, no audio context; and the
\* channel is never connected again.
C11_ConnectFailureTearsDown ==
  /\ [](chan = "failed" =>
          /\ connectPc = "returned"
          /\ onErrorCalls = 1
          /\ \E i \in 1..Len(discPc) : discPc[i].by = "catch"
          /\ ~isConnected /\ session = "null"
          /\ ((\A i \in 1..Len(discPc) : discPc[i].pc = "done") =>
                (audioContext = "null" /\ inputAudioContext = "null"
                 /\ inputMediaStream = "null" /\ activeSources = <<>>)))
  /\ [][chan = "failed" => chan' = "failed"]_vars

C11_Witness ==
  /\ chan = "failed" /\ onErrorCalls = 1 /\ audioContext = "null"
  /\ Len(discPc) = 1 /\ discPc[1].by = "catch" /\ discPc[1].pc = "done"

\* Message k's handler resumes from a decode that succeeded, with an output
\* context to schedule on.
DecodedStep(k) ==
  /\ handler[k].pc = "decoding" /\ handler'[k].pc = "done"
  /\ k \notin failed' /\ audioContext # "null"

DecodeFailStep(k) ==
  /\ handler[k].pc = "decoding" /\ handler'[k].pc = "done"
  /\ k \in failed' /\ k \notin failed

\* C13: a payload whose decode fails is dropped by itself. The step leaves the
\* cursor, activeSources and the schedule as they were unless the same message
\* carries the interruption flag, which is then handled as always; onError is
\* not called and nothing is torn down; the message's transcript text still
\* reaches onSubtitle. Every unit started later finds the cursor where the
\* previous started unit, or the last interruption, or construction left it.
C13_DecodeFailureIsolated ==
  /\ [][\A k \in Msgs : DecodeFailStep(k) =>
          /\ sched' = sched
          /\ onErrorCalls' = onErrorCalls
          /\ isConnected' = isConnected /\ session' = session /\ discPc' = discPc
          /\ audioContext' = audioContext
          /\ IF handler[k].intr
             THEN /\ epoch' = epoch + 1 /\ activeSources' = <<>>
                  /\ (audioContext # "null" => audioQueueNextStartTime' = now)
             ELSE /\ epoch' = epoch /\ activeSources' = activeSources
                  /\ audioQueueNextStartTime' = audioQueueNextStartTime
          /\ subtitled' = (IF handler[k].text THEN Append(subtitled, k)
                           ELSE subtitled)]_vars
  /\ [](\A i \in 1..Len(sched) :
          /\ sched[i].msg \notin failed
          /\ sched[i].cur0 =
               (IF i > 1 /\ sched[i - 1].epoch = sched[i].epoch
                THEN sched[i - 1].start + sched[i - 1].dur
                ELSE IF sched[i].epoch = 0 THEN 0 ELSE sched[i].since))

C13_Witness ==
  \E k \in failed :
    /\ inbox[k].text /\ inbox[k].intr /\ inbox[k].audio > 0
    /\ k \in Range(subtitled) /\ epoch = 1 /\ onErrorCalls = 0
    /\ \E i \in 1..Len(sched) : sched[i].msg > k /\ sched[i].epoch = 1

\* C14: mute(true) and mute(false) change the gain only: the step leaves the
\* cursor, activeSources and the schedule as they were; and a unit started
\* while muted starts where a unit started unmuted does, at the cursor it found
\* or at the clock if the cursor was behind it, and advances the cursor by its
\* duration.
C14_MuteTransparency ==
  /\ [][gain' # gain =>
          /\ audioQueueNextStartTime' = audioQueueNextStartTime
          /\ activeSources' = activeSources
          /\ sched' = sched /\ epoch' = epoch /\ stopped' = stopped]_vars
  /\ [](\A i \in 1..Len(sched) :
          /\ sched[i].start =
               (IF sched[i].cur0 < sched[i].at THEN sched[i].at ELSE sched[i].cur0)
          /\ (i < Len(sched) /\ sched[i + 1].epoch = sched[i].epoch) =>
                sched[i + 1].cur0 = sched[i].start + sched[i].dur
          /\ (i = Len(sched) /\ epoch = sched[i].epoch) =>
                audioQueueNextStartTime = sched[i].start + sched[i].dur)

C14_Witness ==
  /\ gain = 1 /\ Len(sched) = 2 /\ Len(activeSources) = 2
  /\ sched[1].gain = 1 /\ sched[2].gain = 0
  /\ sched[2].start = sched[1].start + sched[1].dur
  /\ audioQueueNextStartTime = sched[2].start + sched[2].dur

\* C15: a microphone window captured while the channel is not open for
\* sending (isConnected false or no session) is dropped in the step that
\* captures it, and no step ever hands an earlier window to the channel: a
\* chunk is sent only in the step that captures its window.
C15_BackpressureDrop ==
  /\ [][micWin' # micWin =>
          /\ micWin' = micWin + 1
          /\ audioChunks' = (IF isConnected /\ session # "null"
                             THEN Append(audioChunks, micWin')
                             ELSE audioChunks)]_vars
  /\ [][audioChunks' # audioChunks =>
          (micWin' = micWin + 1 /\ audioChunks' = Append(audioChunks, micWin'))]_vars

C15_Witness ==
  /\ micWin = 2 /\ audioChunks = <<1>>
  /\ ~isConnected /\ inputAudioContext = "running" /\ chan = "closed"

\* The channel has not reported open.
NotYetOpen == chan \in {"none", "connecting", "failed"}

\* C16: the service's isConnected and LiveCaster's isConnected become true
\* only in the step in which the connecting channel reports open; and while
\* the channel has not reported open no audio chunk and no video frame has been
\* handed to it, no microphone window has been captured and the frame timer
\* has not been started and has not ticked.
C16_StreamingOnlyAfterOpen ==
  /\ [][((isConnected' /\ ~isConnected) \/ (uiConnected' /\ ~uiConnected)) =>
          (chan = "connecting" /\ chan' = "open")]_vars
  /\ [](NotYetOpen =>
          /\ ~isConnected /\ ~uiConnected
          /\ audioChunks = <<>> /\ frameChunks = 0 /\ micWin = 0
          /\ ~frameTimer /\ frameTicks = 0 /\ capturing = 0)

C16_Witness ==
  /\ chan = "connecting" /\ connectPc = "awaitChannel" /\ mounted
  /\ frameLog = <<"poke", "pokeFrame">> /\ frameChunks = 0

\* C17: the frame sampler has at most one capture-encode-send sequence in
\* progress: a tick that fires while the previous capture is still running
\* starts none.
C17_OneCaptureInFlight == capturing <= 1

\* C18: the end of a capture, whether it gave a frame that was sent, gave no
\* frame, or its send failed, leaves the frame timer as it was and is not
\* reported through onError; the timer runs exactly while LiveCaster is mounted
\* and has the session as connected, and while it runs the next tick can fire.
C18_FrameTimerResilience ==
  /\ [][capturing' < capturing =>
          /\ frameTimer' = frameTimer
          /\ uiConnected' = uiConnected /\ isConnected' = isConnected
          /\ onErrorCalls' = onErrorCalls /\ discPc' = discPc]_vars
  /\ [](frameTimer = (mounted /\ uiConnected))
  /\ []((frameTimer /\ frameTicks < MaxFrames) => ENABLED FrameTick(MaxFrames))

C18_Witness ==
  /\ frameLog = <<"tick", "null", "tick", "sendFails">>
  /\ frameTimer /\ isConnected /\ chan = "open"

\* C20: the chunks handed to the channel are microphone windows in the order
\* of their capture, and no window is handed over twice: the window numbers
\* in audioChunks increase strictly and are numbers of captured windows.
C20_OutboundAudioOrder ==
  /\ \A i \in 1..Len(audioChunks) : audioChunks[i] \in 1..micWin
  /\ \A i, j \in 1..Len(audioChunks) : i < j => audioChunks[i] < audioChunks[j]

C20_Witness == audioChunks = <<1, 2>> /\ micWin = 2

\* The call of handleMessage for message k returns in this step.
HandledStep(k) == handler[k].pc # "done" /\ handler'[k].pc = "done"

\* C19: when the handling of a message ends, each part was handled according
\* to its own presence alone, whatever the other two parts were: onSubtitle
\* was called for the message exactly when it carries text; the interruption
\* was handled (sources cleared, cursor reset to the clock) exactly when it
\* carries the flag; and a unit of the payload's duration was started exactly
\* when it carries a payload whose decode succeeded.
C19_IndependentDispatch ==
  [][\A k \in Msgs : HandledStep(k) =>
       LET c == inbox'[k]
           decoded == c.audio > 0 /\ k \notin failed' /\ audioContext # "null"
       IN /\ subtitled' = (IF c.text THEN Append(subtitled, k) ELSE subtitled)
          /\ epoch' = (IF c.intr THEN epoch + 1 ELSE epoch)
          /\ c.intr => (activeSources' = <<>> /\ audioQueueNextStartTime' = now)
          /\ sched' = (IF decoded
                       THEN Append(sched, sched'[Len(sched')]) ELSE sched)
          /\ decoded => (/\ sched'[Len(sched')].msg = k
                         /\ sched'[Len(sched')].dur = c.audio
                         /\ k \in stopped' \cup Range(activeSources'))]_vars

C19_Witness ==
  \E k \in 1..Len(inbox) :
    /\ inbox[k].audio > 0 /\ inbox[k].text /\ inbox[k].intr
    /\ handler[k].pc = "done" /\ k \notin failed
    /\ k \in Range(subtitled) /\ epoch = 1 /\ k \in stopped
    /\ Len(sched) = 1 /\ sched[1].msg = k

\* A microphone window passed the guard and was not handed to the channel.
AudioSendFailed ==
  /\ micWin' = micWin + 1 /\ SendGuard(isConnected, session)
  /\ audioChunks' = audioChunks

\* A frame's send threw.
FrameSendFailed == frameLog' = Append(frameLog, "sendFails")

\* C21: a send that fails loses its chunk and nothing else. The step hands
\* nothing to the channel, raises no exception out of the service and does not
\* call onError; isConnected, the channel, the session, the input pipeline and
\* the frame timer are as before. A chunk handed to the channel is always the
\* window just captured, so a lost window is never sent later, and the windows
\* and frames after it are sent.
C21_SendFailureIsolated ==
  /\ [][(AudioSendFailed \/ FrameSendFailed) =>
          /\ audioChunks' = audioChunks /\ frameChunks' = frameChunks
          /\ uncaught' = uncaught /\ onErrorCalls' = onErrorCalls
          /\ isConnected' = isConnected /\ chan' = chan /\ session' = session
          /\ inputAudioContext' = inputAudioContext /\ frameTimer' = frameTimer
          /\ discPc' = discPc]_vars
  /\ [][audioChunks' # audioChunks => audioChunks' = Append(audioChunks, micWin')]_vars
  /\ []((inputAudioContext = "running" /\ micWin < MaxWin)
          => ENABLED OnAudioProcess(MaxWin))

C23_TapExposed ==
  /\ (isConnected /\ connectPc \in {"awaitMic", "returned"}) => (tapOut \/ vizLoop)
  /\ inputAudioContext = "running" => tapIn

RECURSIVE Base64Decode(_)
Base64Decode(d) ==
  IF Len(d) = 0 THEN <<>>
  ELSE LET b1 == d[1] * 4 + d[2] \div 16
           b2 == (d[2] % 16) * 16 + d[3] \div 4
           b3 == (d[3] % 4) * 64 + d[4]
       IN (IF d[3] = 64 THEN <<b1>> ELSE IF d[4] = 64 THEN <<b1, b2>> ELSE <<b1, b2, b3>>)
          \o Base64Decode(SubSeq(d, 5, Len(d)))

\* The signed 16-bit value of a low byte and a high byte.
Int16Of(lo, hi) == LET u == lo + 256 * hi IN IF u >= 32768 THEN u - 65536 ELSE u

\* C25: the text createPcmData returns stands for exactly two bytes per sample,
\* low byte first, in sample order, and the value v of sample n / SampleDen is:
\* 32767 for 1 and anything above, -32768 for -1 and anything below, 0 for 0,
\* and between the ends the sample times 32768 when negative and times 32767
\* when not, less the fraction a 16-bit integer cannot hold.
C25_PcmBoundaryMapping ==
  \A r \in 1..Len(pcmOut) :
     LET bytes == Base64Decode(pcmOut[r])
     IN /\ Len(bytes) = 2 * Len(pcmIn)
        /\ \A i \in 1..Len(pcmIn) :
              LET n == pcmIn[i]
                  lo == bytes[2 * i - 1]
                  hi == bytes[2 * i]
                  v == Int16Of(lo, hi)
              IN /\ lo \in 0..255 /\ hi \in 0..255
                 /\ n >= SampleDen => v = 32767
                 /\ n <= -SampleDen => v = -32768
                 /\ n = 0 => v = 0
                 /\ (n < 0 /\ n > -SampleDen) =>
                       (v * SampleDen >= n * 32768 /\ v * SampleDen < n * 32768 + SampleDen)
                 /\ (n > 0 /\ n < SampleDen) =>
                       (v * SampleDen <= n * 32767 /\ v * SampleDen > n * 32767 - SampleDen)

\* A sample above 1 and a sample below -1 were encoded, in that order.
C25_Witness ==
  /\ pcmIn = <<8, -5>>
  /\ pcmOut = <<Base64(<<255, 127, 0, 128>>)>>

\* C26: for every level from 0 to 100 the modifier is one of three texts: the
\* calm one exactly when the level is below 30, the maximum one exactly when
\* it is above 70, the balanced one exactly when it is from 30 to 70.
C26_HypeModifierMapping ==
  hypeModifier # "" =>
     /\ hypeLevel \in 0..100
     /\ hypeModifier \in {" Keep it calm.", " MAXIMUM VOLUME AND SPEED.", " Balanced energy."}
     /\ (hypeModifier = " Keep it calm.") = (hypeLevel < 30)
     /\ (hypeModifier = " MAXIMUM VOLUME AND SPEED.") = (hypeLevel > 70)
     /\ (hypeModifier = " Balanced energy.") = (hypeLevel >= 30 /\ hypeLevel <= 70)

\* The upper threshold itself was mapped, to the balanced modifier.
C26_Witness == hypeLevel = 70 /\ hypeModifier = " Balanced energy."

\* q is what t ends with.
IsTailOf(q, t) == Len(q) <= Len(t) /\ q = LastChars(t, Len(q))

\* C27 as stated: after any sequence of subtitle events the buffer holds at
\* most 150 characters, and they are the most recent tail of the accumulated
\* subtitle text.
C27_BoundedTranscript_Stated ==
  /\ Len(transcript) <= TranscriptBudget
  /\ IsTailOf(transcript, allText)

\* C27, amended: the buffer is the whole accumulated text while that has at
\* most 150 characters, and afterwards the marker "..." followed by the last
\* 150 characters of the accumulated text: at most 153 characters.
C27_BoundedTranscript ==
  /\ Len(transcript) <= TranscriptBudget + Len(Ellipsis)
  /\ IF Len(allText) <= TranscriptBudget
     THEN transcript = allText
     ELSE transcript = Ellipsis \o LastChars(allText, TranscriptBudget)

\* The buffer was cut, and cut again by a later event whose text alone is
\* shorter than the budget.
C27_Witness ==
  /\ SubtitleCount = 3 /\ Len(transcript) = TranscriptBudget + 3
  /\ transcript[4] = 2 /\ transcript[TranscriptBudget + 3] = 3

\* C28: the cursor never decreases, except in a step that handles an
\* interruption flag, and that step sets it to the reading of the output clock.
C28_CursorMonotonic ==
  [][audioQueueNextStartTime' < audioQueueNextStartTime =>
        /\ epoch' = epoch + 1
        /\ audioQueueNextStartTime' = now']_vars

\* An interruption, carried by a transcript message, lowered the cursor from
\* the end of the unit before it to the clock reading; the output is muted.
C28_Witness ==
  /\ Len(sched) = 1 /\ epoch = 1 /\ subtitled = <<2>> /\ gain = 0
  /\ audioQueueNextStartTime = intrTime
  /\ audioQueueNextStartTime < sched[1].start + sched[1].dur

\* C29: any two units that are in activeSources together occupy disjoint
\* intervals [start, start + duration) of the output timeline.
C29_NoOverlappingPlayback ==
  \A i, j \in 1..Len(activeSources) :
     i # j =>
        LET a == UnitOf(activeSources[i])
            b == UnitOf(activeSources[j])
        IN a.start + a.dur <= b.start \/ b.start + b.dur <= a.start

\* Two units are in the set, started in the reverse of their arrival order
\* after the clock had moved, one right after the other.
C29_Witness ==
  /\ Len(activeSources) = 2
  /\ activeSources[1] = 2 /\ activeSources[2] = 1
  /\ UnitOf(2).at > 0
  /\ UnitOf(1).start = UnitOf(2).start + UnitOf(2).dur

\* A step in which a unit is started, and the unit.
SchedulingStep == Len(sched') = Len(sched) + 1
NewUnit == sched'[Len(sched')]

\* C30: the scheduling step and the interruption step are each one step on the
\* values they find. A scheduling step starts the unit at the larger of the
\* cursor and the clock as they are when the step begins, and ends with the
\* cursor at the unit's end and the unit appended to the set as it was (or,
\* when its message also carries the interruption flag, with the set empty,
\* the unit stopped with the others and the cursor at the clock). An
\* interruption step stops every unit that was in the set, empties the set
\* and puts the cursor at the clock. The cursor changes in no other step, and
\* the set changes otherwise only by a completion callback taking its unit
\* out or by disconnect() emptying it.
C30_SerializedTimelineMutation ==
  /\ [][SchedulingStep =>
          /\ NewUnit.start = Max2(audioQueueNextStartTime, now)
          /\ NewUnit.at = now /\ now' = now
          /\ epoch' = epoch =>
                /\ audioQueueNextStartTime' = NewUnit.start + NewUnit.dur
                /\ activeSources' = Append(activeSources, NewUnit.msg)
          /\ epoch' # epoch => NewUnit.msg \in stopped']_vars
  /\ [][epoch' # epoch =>
          /\ activeSources' = <<>>
          /\ Range(activeSources) \subseteq stopped'
          /\ audioContext # "null" => audioQueueNextStartTime' = now
          /\ now' = now]_vars
  /\ [][audioQueueNextStartTime' # audioQueueNextStartTime =>
          (SchedulingStep \/ epoch' # epoch)]_vars
  /\ [][activeSources' # activeSources =>
          \/ SchedulingStep
          \/ epoch' # epoch
          \/ \E k \in Msgs : /\ ended' = ended \cup {k} /\ k \notin ended
                              /\ activeSources' = RemoveSource(activeSources, k)
          \/ /\ Len(discPc') = Len(discPc) + 1
             /\ activeSources' = <<>>
             /\ Range(activeSources) \subseteq stopped']_vars

\* The second message's unit was started while the first message's handler
\* was still awaiting its decode, the cursor being behind the clock.
C30_Witness ==
  /\ Len(sched) = 1 /\ sched[1].msg = 2 /\ handler[1].pc = "decoding"
  /\ sched[1].cur0 < sched[1].at
  /\ audioQueueNextStartTime = sched[1].start + sched[1].dur
  /\ activeSources = <<2>>

\* An earlier message's decode is pending or has failed.
EarlierDecodeOpen == \E j \in Msgs : handler[j].pc = "decoding" \/ j \in failed

\* C31: a pending or failed decode holds nothing up. While one is open the
\* channel can still deliver the next message; the delivery leaves the pending
\* handlers as they are, a message without audio has its transcript and
\* interruption parts handled in the delivery step itself, one with audio
\* starts its own decode; and any pending decode can be the next to resolve,
\* whatever the state of the decodes of earlier messages.
C31_DecodeDoesNotBlockDispatch ==
  /\ []((EarlierDecodeOpen /\ chan = "open" /\ msgCount < MaxDispMsgs) =>
          ENABLED (\E a \in Payloads, t, i \in BOOLEAN :
                     OnMessageLogged(MaxDispMsgs, a, t, i)))
  /\ [](\A k \in Msgs : handler[k].pc = "decoding" => ENABLED DecodeDone(k))
  /\ [][(msgCount' = msgCount + 1 /\ EarlierDecodeOpen) =>
          LET k == msgCount'
              c == inbox'[k]
          IN /\ \A j \in Msgs \ {k} : handler'[j] = handler[j]
             /\ IF c.audio > 0 /\ audioContext # "null"
                THEN handler'[k].pc = "decoding"
                ELSE /\ handler'[k].pc = "done"
                     /\ subtitled' = (IF c.text THEN Append(subtitled, k)
                                      ELSE subtitled)
                     /\ epoch' = (IF c.intr THEN epoch + 1 ELSE epoch)
                     /\ c.intr => activeSources' = <<>>]_vars

\* The second message, with all three parts, has been handled to its end
\* while the first message's decode is still pending.
C31_Witness ==
  /\ handler[1].pc = "decoding" /\ Len(inbox) = 2
  /\ inbox[2].audio > 0 /\ inbox[2].text /\ inbox[2].intr
  /\ handler[2].pc = "done" /\ subtitled = <<2>> /\ epoch = 1
  /\ Len(sched) = 1 /\ sched[1].msg = 2

\* C32: the completion callback of unit k takes k and nothing else out of
\* activeSources, leaves the list as it is when k is not in it, and raises
\* nothing. Every started unit is in the list, once, until its callback has
\* run or it was stopped by an interruption or by disconnect(), and a unit
\* leaves the list in no other way.
C32_SelfRemovalExact ==
  /\ [][\A k \in Msgs : (k \in ended' /\ k \notin ended) =>
          /\ activeSources' = SelectSeq(activeSources, LAMBDA x : x # k)
          /\ (k \notin Range(activeSources) => activeSources' = activeSources)
          /\ uncaught' = uncaught /\ onErrorCalls' = onErrorCalls]_vars
  /\ [](\A i \in 1..Len(sched) :
          \/ sched[i].msg \in Range(activeSources)
          \/ sched[i].msg \in ended
          \/ sched[i].msg \in stopped)
  /\ [](\A i, j \in 1..Len(activeSources) :
          /\ Started(activeSources[i])
          /\ (i # j => activeSources[i] # activeSources[j]))
  /\ [][\A k \in Range(activeSources) :
          k \notin Range(activeSources') => (k \in ended' \/ k \in stopped')]_vars

\* Unit 1 was stopped by an interruption and its completion callback has run;
\* unit 2, started afterwards, is in the list.
C32_Witness ==
  /\ 1 \in stopped /\ 1 \in ended /\ Started(2)
  /\ UnitOf(2).epoch > UnitOf(1).epoch
  /\ activeSources = <<2>>

\* C33: the step that handles an interruption writes the cursor and
\* activeSources (and stops the sources) and nothing of the outbound side:
\* isConnected, the session, the channel, the microphone stream and its
\* context, the frame timer and what was already sent are as before. After it
\* the microphone callback and the frame timer still fire, a window that
\* passes the guard is handed to the channel and so is a captured frame.
C33_InterruptionKeepsOutbound ==
  /\ [][epoch' # epoch =>
          /\ isConnected' = isConnected /\ session' = session /\ chan' = chan
          /\ inputMediaStream' = inputMediaStream /\ micTracks' = micTracks
          /\ inputAudioContext' = inputAudioContext
          /\ frameTimer' = frameTimer /\ uiConnected' = uiConnected
          /\ capturing' = capturing /\ out' = out
          /\ audioContext' = audioContext /\ discPc' = discPc]_vars
  /\ []((epoch > 0 /\ inputAudioContext = "running" /\ micWin < MaxLifeWin)
          => ENABLED OnAudioProcess(MaxLifeWin))
  /\ []((epoch > 0 /\ frameTimer /\ frameTicks < MaxLifeFrames)
          => ENABLED FrameTick(MaxLifeFrames))
  /\ [][(epoch > 0 /\ micWin' = micWin + 1 /\ isConnected /\ session # "null") =>
          audioChunks' = Append(audioChunks, micWin')]_vars
  /\ [][(epoch > 0 /\ frameLog' = Append(frameLog, "frame")
            /\ isConnected /\ session # "null") =>
          frameChunks' = frameChunks + 1]_vars

\* An interruption stopped a playing unit; a microphone window and a frame
\* have been handed to the channel and the frame timer runs.
C33_Witness ==
  /\ epoch = 1 /\ stopped # {} /\ activeSources = <<>>
  /\ audioChunks = <<1>> /\ frameChunks = 1 /\ frameTimer /\ isConnected

\* C34: at most one interval timer of the frame effect is active; none is
\* active while LiveCaster's isConnected is false or after LiveCaster was
\* unmounted; and every change of LiveCaster's isConnected leaves exactly one
\* active when it is now true and none when it is now false.
C34_SingleFrameTimer ==
  /\ [](timers \in {0, 1})
  /\ [](timers > 0 => (mounted /\ uiConnected))
  /\ [](frameTimer => timers = 1)
  /\ [][uiConnected' # uiConnected =>
          timers' = (IF uiConnected' THEN 1 ELSE 0)]_vars
  /\ [][mounted' # mounted => timers' = 0]_vars

\* The interval was set when the channel opened, ticked, and was cleared when
\* the channel closed; LiveCaster is still mounted.
C34_Witness ==
  /\ mounted /\ ~uiConnected /\ chan = "closed"
  /\ frameTicks > 0 /\ timers = 0

\* C35: once disconnect() has been called no unit is started or added to
\* activeSources, and when the call has completed the list is empty and stays
\* empty.
C35_NoSchedulingAfterTeardown ==
  /\ [][Len(discPc) > 0 =>
          /\ sched' = sched
          /\ \A k \in Range(activeSources') : k \in Range(activeSources)]_vars
  /\ []((Len(discPc) > 0 /\ \A i \in 1..Len(discPc) : discPc[i].pc = "done")
          => activeSources = <<>>)

\* ------------------------------------------------- connect() a second time
\* geminiLiveService.ts 46-58 on a service whose disconnect() has completed:
\* connect() makes a new AudioContext, whose clock starts at 0, a new gain
\* node and analyser, calls startVisualizer and asks for the channel. Neither
\* connect() nor disconnect() (278-315) assigns audioQueueNextStartTime.
Reconnect ==
  /\ connectPc = "returned" /\ relink = <<>>
  /\ Len(discPc) > 0 /\ \A i \in 1..Len(discPc) : discPc[i].pc = "done"
  /\ audioContext' = "running" /\ gainNode' = TRUE /\ now' = 0
  /\ chan' = "connecting" /\ connectPc' = "awaitChannel"
  /\ LET v == StartVisualizer(isConnected, TRUE, taps)
     IN vizLoop' = v.raf /\ tapOut' = (tapOut \/ v.delivered)
  /\ relink' = <<[units |-> Len(sched), msgs |-> msgCount]>>
  /\ UNCHANGED <<session, audioQueueNextStartTime, isConnected, activeSources,
                 inputMediaStream, inputAudioContext, micTracks, discPc, handler,
                 msgCount, ui, out, hist, obs, uncaught, taps, tapIn, cast, pcm,
                 late, home, rep>>

NextRelink ==
  \/ Connect
  \/ ChannelOpen
  \/ MicGranted
  \/ \E a \in Payloads, i \in BOOLEAN : OnMessage(MaxMsgs, a, i)
  \/ \E k \in Msgs : DecodeDone(k)
  \/ Tick(MaxLifeTime)
  \/ ApiDisconnect
  \/ ResumeDisconnect
  \/ Reconnect

SpecRelink == Init /\ [][NextRelink]_vars

\* The units of the second connection: started after connect() was called
\* again, for a message delivered after it.
NewUnits ==
  IF relink = <<>> THEN {}
  ELSE {i \in 1..Len(sched) : i > relink[1].units /\ sched[i].msg > relink[1].msgs}

\* C36: when connect() is called again on a service after disconnect(), the
\* first audio unit of the new connection starts at the new output clock's
\* current time; the cursor left by the previous connection does not delay it.
C36_FreshTimeline ==
  \A i \in NewUnits :
    (\A j \in NewUnits : i <= j) => sched[i].start = sched[i].at

\* --------------------------------------------------- the safety timeout
\* LiveCaster 535-539: the timer set when the effect ran fires (the cleanup
\* has not cleared it): connectionError is set to the timed-out message when
\* the service's audioContext field is null.
TimeoutFires ==
  /\ safetyTimer = "pending"
  /\ safetyTimer' = "fired"
  /\ connectionError' = (IF audioContext = "null" THEN "timeout" ELSE connectionError)
  /\ UNCHANGED <<svc, env, ctl, ui, out, hist, obs, uncaught, tap, cast, pcm,
                 timers, ext>>

NextTimeout ==
  \/ Connect
  \/ ChannelOpen
  \/ ChannelFail
  \/ MicGranted
  \/ MicDenied
  \/ ChannelClose
  \/ ChannelError
  \/ \E a \in Payloads, i \in BOOLEAN : OnMessage(MaxLifeMsgs, a, i)
  \/ \E k \in Msgs : DecodeDone(k)
  \/ Unmount
  \/ ResumeDisconnect
  \/ TimeoutFires

SpecTimeout == Init /\ [][NextTimeout]_vars

\* C37: when the safety timer fires with the channel neither opened nor
\* reported in error, connectionError becomes the timed-out message; when it
\* fires with the session streaming, no error is set.
C37_SafetyTimeout ==
  [][(safetyTimer = "pending" /\ safetyTimer' = "fired") =>
       /\ (chan = "connecting" /\ onErrorCalls = 0) => connectionError' = "timeout"
       /\ (isConnected /\ chan = "open") => connectionError' = connectionError]_vars

\* ------------------------------------------------------------------ Home
MaxShareReqs == 3

\* Home as App first shows it (part_000 10-12, part_002 13-25): no stream, the
\* wizard closed, and LiveCaster not mounted.
InitHome ==
  /\ InitFields /\ mounted = FALSE /\ homeMounted = TRUE
  /\ streams = <<>>
  /\ screenStream = 0 /\ screenStep = "IDLE" /\ streamKeepAlive = FALSE
  /\ mediaSource = 0
  /\ taps = TRUE /\ hypeLevel = 50 /\ pcmIn = <<>>

\* part_002 28-35: the cleanup of the effect on [screenStream], run by React
\* when screenStream has changed and when Home unmounts, with the stream of
\* the render it belongs to and the ref as it is then.
HomeCleanup(all, s, keep) == IF s # 0 /\ ~keep THEN StopTracks(all, s) ELSE all

\* A state setter of Home: nothing once Home is unmounted.
HomeSet(old, new) == IF homeMounted THEN new ELSE old

\* part_002 251 (SELECT SCREEN / CHANGE SCREEN) and 237 (the preview button).
OpenWizard ==
  /\ homeMounted /\ screenStep = "IDLE"
  /\ \E step \in {"GUIDE", "PREVIEW"} :
       /\ step = "PREVIEW" => screenStream # 0
       /\ screenStep' = step
  /\ UNCHANGED <<svc, env, ctl, ui, out, hist, obs, uncaught, tap, cast, pcm, late,
                 relink, streams, screenStream, streamKeepAlive, shareReqs,
                 homeMounted, mediaSource, rep>>

\* part_002 38-43: the button of the GUIDE step calls startScreenShare, which
\* suspends at getDisplayMedia; its closure holds the screenStream of the
\* render the click happened in.
StartScreenShare ==
  /\ homeMounted /\ screenStep = "GUIDE" /\ Len(shareReqs) < MaxShareReqs
  /\ shareReqs' = Append(shareReqs, [prev |-> screenStream, pc |-> "pending"])
  /\ UNCHANGED <<svc, env, ctl, ui, out, hist, obs, uncaught, tap, cast, pcm, late,
                 relink, streams, screenStream, screenStep, streamKeepAlive,
                 homeMounted, mediaSource, rep>>

\* part_002 45-64: getDisplayMedia resolves with a new stream. The closure's
\* previous stream is stopped, the new one becomes screenStream, the step
\* PREVIEW and the ref false; the change of screenStream then runs the effect
\* cleanup for the stream it replaces.
ShareGranted(i) ==
  /\ i \in 1..Len(shareReqs) /\ shareReqs[i].pc = "pending"
  /\ LET got == Append(streams, "live")
         cut == StopTracks(got, shareReqs[i].prev)
     IN streams' = (IF homeMounted THEN HomeCleanup(cut, screenStream, FALSE)
                    ELSE cut)
  /\ screenStream' = HomeSet(screenStream, Len(streams) + 1)
  /\ screenStep' = HomeSet(screenStep, "PREVIEW")
  /\ streamKeepAlive' = FALSE
  /\ shareReqs' = [shareReqs EXCEPT ![i].pc = "done"]
  /\ UNCHANGED <<svc, env, ctl, ui, out, hist, obs, uncaught, tap, cast, pcm, late,
                 relink, homeMounted, mediaSource, rep>>

\* part_002 66-69: getDisplayMedia rejects (the user cancels the picker).
ShareDenied(i) ==
  /\ i \in 1..Len(shareReqs) /\ shareReqs[i].pc = "pending"
  /\ screenStep' = HomeSet(screenStep, "IDLE")
  /\ shareReqs' = [shareReqs EXCEPT ![i].pc = "done"]
  /\ UNCHANGED <<svc, env, ctl, ui, out, hist, obs, uncaught, tap, cast, pcm, late,
                 relink, streams, screenStream, streamKeepAlive,
                 homeMounted, mediaSource, rep>>

\* part_002 101-105 (the wizard's close button, next = "IDLE") and 163-167
\* (RETAKE in the PREVIEW step, next = "GUIDE"): the stream is stopped and
\* screenStream set to null.
DropStream(next) ==
  /\ homeMounted /\ screenStep # "IDLE"
  /\ next = "GUIDE" => screenStep = "PREVIEW"
  /\ streams' = HomeCleanup(StopTracks(streams, screenStream), screenStream,
                            streamKeepAlive)
  /\ screenStream' = 0 /\ screenStep' = next
  /\ UNCHANGED <<svc, env, ctl, ui, out, hist, obs, uncaught, tap, cast, pcm, late,
                 relink, streamKeepAlive, shareReqs, homeMounted, mediaSource, rep>>

\* part_002 60-63: the browser ends the video track of live stream s (the
\* user stops sharing); its onended handler clears screenStream and closes
\* the wizard, and the change of screenStream runs the effect cleanup.
TrackEnded(s) ==
  /\ s \in DOMAIN streams /\ streams[s] = "live"
  /\ LET over == [streams EXCEPT ![s] = "stopped"]
     IN streams' = (IF homeMounted THEN HomeCleanup(over, screenStream, streamKeepAlive)
                    ELSE over)
  /\ screenStream' = HomeSet(screenStream, 0)
  /\ screenStep' = HomeSet(screenStep, "IDLE")
  /\ UNCHANGED <<svc, env, ctl, ui, out, hist, obs, uncaught, tap, cast, pcm, late,
                 relink, streamKeepAlive, shareReqs, homeMounted, mediaSource, rep>>

\* part_002 72-83 with App.handleStart (part_000 14-17): START CASTING, or
\* LOOKS GOOD in the PREVIEW step, sets the ref and calls onStart with the
\* stream as mediaSource; App leaves the HOME screen, so Home unmounts (its
\* effect cleanup runs) and LiveCaster mounts.
HandleStart ==
  /\ homeMounted /\ screenStream # 0 /\ screenStep \in {"IDLE", "PREVIEW"}
  /\ streamKeepAlive' = TRUE
  /\ mediaSource' = screenStream
  /\ streams' = HomeCleanup(streams, screenStream, TRUE)
  /\ homeMounted' = FALSE /\ mounted' = TRUE
  /\ UNCHANGED <<svc, env, ctl, uiConnected, frameTimer, capturing, frameTicks, poking,
                 out, hist, obs, uncaught, tap, cast, pcm, late,
                 relink, screenStream, screenStep, shareReqs, rep>>

NextHome ==
  \/ OpenWizard
  \/ StartScreenShare
  \/ \E i \in 1..MaxShareReqs : ShareGranted(i)
  \/ \E i \in 1..MaxShareReqs : ShareDenied(i)
  \/ \E next \in {"IDLE", "GUIDE"} : DropStream(next)
  \/ \E s \in 1..MaxShareReqs : TrackEnded(s)
  \/ HandleStart
  \/ Connect
  \/ Unmount
  \/ ResumeDisconnect

SpecHome == InitHome /\ [][NextHome]_vars

\* Stream s has an owner: it is Home's current selection, or the mediaSource
\* of the mounted LiveCaster.
Owned(s) == (homeMounted /\ screenStream = s) \/ (mounted /\ mediaSource = s)

\* C38: the stream handed over by START CASTING is not stopped when Home
\* unmounts and is stopped once LiveCaster has been torn down; every other
\* acquired stream is stopped when it is replaced, when the user retakes or
\* closes the wizard or when Home unmounts, so that no live stream is without
\* an owner.
C38_StreamOwnership ==
  /\ [][(homeMounted /\ ~homeMounted') =>
          (mediaSource' = screenStream /\ streams'[screenStream] = streams[screenStream])]_vars
  /\ []((mediaSource # 0 /\ ~mounted) => streams[mediaSource] = "stopped")
  /\ [](\A s \in DOMAIN streams : streams[s] = "live" => Owned(s))

\* ---------------------------------------------------------- the report
MaxReportEvents == 2
\* Event timestamps are counted in units of 1/TimeDen s, so that Math.floor
\* (geminiTextService.ts 9) has something to cut.
TimeDen == 2
ReportEvent == [timestamp : 0..(2 * TimeDen - 1), type : {"USER_PICK", "NORMAL"}]
Replies == {"rejected", "noText", "emptyText", "badJson", "json"}

\* geminiTextService.ts 9: one line per event, joined by newlines. Every line
\* begins "Time: ", so the joined text is empty exactly when there is no event.
EventsSummary(evs) ==
  [i \in 1..Len(evs) |-> [time |-> evs[i].timestamp \div TimeDen, type |-> evs[i].type]]

PlaceholderSummary ==
  <<[time |-> 0,
     type |-> "The match was standard play with no specific marked highlights."]>>

\* geminiTextService.ts 12.
EffectiveSummary(summary) == IF Len(summary) > 0 THEN summary ELSE PlaceholderSummary

\* geminiTextService.ts 64-71.
FallbackReport ==
  [highlights |-> <<>>, archetype |-> "Unknown Player",
   strengths |-> <<"Consistency">>,
   improvement |-> "Try to generate more distinct plays next time."]

\* What JSON.parse makes of a well-formed reply (58-59).
ParsedReport ==
  [highlights |-> <<"highlight">>, archetype |-> "The Aggressive Entry",
   strengths |-> <<"Aim">>, improvement |-> "Rotate earlier."]

\* The function with the parse outside its try block.
GeneratePostGameReport_ParseUncaught(how) ==
  IF how = "rejected" THEN [settled |-> "resolved", value |-> FallbackReport]
  ELSE IF how \in {"noText", "emptyText"}
  THEN [settled |-> "resolved", value |-> FallbackReport]
  ELSE IF how = "badJson" THEN [settled |-> "rejected", value |-> FallbackReport]
  ELSE [settled |-> "resolved", value |-> ParsedReport]

\* geminiTextService.ts 23-72 from the point the request settles: a rejected
\* request, a reply without text (undefined or "") and a text JSON.parse
\* throws on all end in the catch, which returns the fallback; otherwise the
\* parsed value is returned.
GeneratePostGameReport(how) ==
  IF how = "rejected" THEN [settled |-> "resolved", value |-> FallbackReport]
  ELSE IF how \in {"noText", "emptyText"}
  THEN [settled |-> "resolved", value |-> FallbackReport]
  ELSE IF how = "badJson" THEN [settled |-> "resolved", value |-> FallbackReport]
  ELSE [settled |-> "resolved", value |-> ParsedReport]

\* ResultReport mounts with the session's events (part_000 19-22, 41-45); its
\* effect (part_002 334-342) calls generatePostGameReport, which builds the
\* prompt (geminiTextService.ts 5-21) and suspends at the request.
MountReport(evs) ==
  /\ reportPc = "idle"
  /\ sessionEvents' = evs
  /\ prompt' = EffectiveSummary(EventsSummary(evs))
  /\ reportPc' = "requested"
  /\ UNCHANGED <<svc, env, ctl, ui, out, hist, obs, uncaught, tap, cast, pcm, late,
                 relink, home, reply, report, loading>>

\* The request settles; fetchReport (part_002 336-340) stores what
\* generatePostGameReport resolved with and clears loading. Were the promise
\* rejected, fetchReport would stop at its await.
ReportReply(how) ==
  /\ reportPc = "requested"
  /\ reply' = how
  /\ LET r == GeneratePostGameReport(how)
     IN /\ reportPc' = r.settled
        /\ report' = (IF r.settled = "resolved" THEN <<r.value>> ELSE report)
        /\ loading' = (IF r.settled = "resolved" THEN FALSE ELSE loading)
  /\ UNCHANGED <<svc, env, ctl, ui, out, hist, obs, uncaught, tap, cast, pcm, late,
                 relink, home, sessionEvents, prompt>>

NextReport ==
  \/ \E evs \in SeqsUpTo(ReportEvent, MaxReportEvents) : MountReport(evs)
  \/ \E how \in Replies : ReportReply(how)

SpecReport == Init /\ [][NextReport]_vars

====
